---------------------------- MODULE Spec2Model ----------------------------
(***************************************************************************)
(* Jerry AI backend: the SMS dialogue engine, its conversation store and   *)
(* the webhook ingestion pipeline, as a state machine.                     *)
(*                                                                         *)
(* The repository holds several server files with the same routes:         *)
(* src/index.js ("index"), src/unnamed/part_001 ("part1") and the older    *)
(* src/unnamed/part_002 ("part2").  The variable `variant` says which of   *)
(* the server files is the running process.  Spec, CampaignSpec and        *)
(* AdminSpec run "index" and "part1"; SerialSpec runs all three.           *)
(*                                                                         *)
(* Every `await pool.query(...)` / `await client.query(...)` of a handler  *)
(* is one atomic step of a turn; turns of different requests interleave    *)
(* between steps, as they do on the node event loop.                       *)
(***************************************************************************)
EXTENDS Integers, Sequences, FiniteSets, TLC

(***************************************************************************)
(* Bounds of the model.                                                    *)
(***************************************************************************)
\* number of events of the environment during one behaviour: requests that
\* arrive (webhook deliveries, campaign starts, manual replies) and statements
\* that the store, the SMS provider or the mail relay fails
MaxEvents == 2

(***************************************************************************)
(* JavaScript strings.  TLC strings support Len, SubSeq and \o.            *)
(***************************************************************************)
NULL == "<null>"

\* JS truthiness of a nullable string column: null and '' are falsy
Truthy(s) == s # NULL /\ s # ""

Char(s, i) == SubSeq(s, i, i)

UPPER == "ABCDEFGHIJKLMNOPQRSTUVWXYZ"
LOWER == "abcdefghijklmnopqrstuvwxyz"
DIGITS == "0123456789"

\* the characters of alphabet, each with its position
Positions(alphabet) ==
    [c \in {Char(alphabet, i) : i \in 1..Len(alphabet)} |->
        CHOOSE i \in 1..Len(alphabet) : Char(alphabet, i) = c]

UpperPos == Positions(UPPER)
LowerPos == Positions(LOWER)
DigitPos == Positions(DIGITS)

IsDigit(c) == c \in DOMAIN DigitPos
IsLetter(c) == c \in DOMAIN UpperPos \/ c \in DOMAIN LowerPos
IsSpace(c) == c = " " \/ c = "\n" \/ c = "\t"

\* the value of a digit
DigitValue(c) == DigitPos[c] - 1

lowerChar(c) == IF c \in DOMAIN UpperPos THEN Char(LOWER, UpperPos[c]) ELSE c
upperChar(c) == IF c \in DOMAIN LowerPos THEN Char(UPPER, LowerPos[c]) ELSE c

RECURSIVE toLowerCase(_)
toLowerCase(s) ==
    IF Len(s) = 0 THEN ""
    ELSE lowerChar(Char(s, 1)) \o toLowerCase(SubSeq(s, 2, Len(s)))

RECURSIVE toUpperCase(_)
toUpperCase(s) ==
    IF Len(s) = 0 THEN ""
    ELSE upperChar(Char(s, 1)) \o toUpperCase(SubSeq(s, 2, Len(s)))

\* String.prototype.includes
includes(s, k) ==
    \E i \in 1..(Len(s) - Len(k) + 1) : SubSeq(s, i, i + Len(k) - 1) = k

\* first position at which k occurs in s, 0 when it does not
indexOf(s, k) ==
    IF includes(s, k)
    THEN CHOOSE i \in 1..(Len(s) - Len(k) + 1) :
            /\ SubSeq(s, i, i + Len(k) - 1) = k
            /\ \A j \in 1..(i - 1) : SubSeq(s, j, j + Len(k) - 1) # k
    ELSE 0

RECURSIVE trimStart(_)
trimStart(s) ==
    IF Len(s) > 0 /\ IsSpace(Char(s, 1)) THEN trimStart(SubSeq(s, 2, Len(s))) ELSE s

RECURSIVE trimEnd(_)
trimEnd(s) ==
    IF Len(s) > 0 /\ IsSpace(Char(s, Len(s))) THEN trimEnd(SubSeq(s, 1, Len(s) - 1)) ELSE s

\* String.prototype.trim
trim(s) == trimEnd(trimStart(s))

\* message.replace(/[^\d]/g, '')
RECURSIVE keepDigits(_)
keepDigits(s) ==
    IF Len(s) = 0 THEN ""
    ELSE (IF IsDigit(Char(s, 1)) THEN Char(s, 1) ELSE "") \o keepDigits(SubSeq(s, 2, Len(s)))

\* name.replace(/[^a-zA-Z\s]/g, '')
RECURSIVE keepLettersAndSpaces(_)
keepLettersAndSpaces(s) ==
    IF Len(s) = 0 THEN ""
    ELSE (IF IsLetter(Char(s, 1)) \/ IsSpace(Char(s, 1)) THEN Char(s, 1) ELSE "")
            \o keepLettersAndSpaces(SubSeq(s, 2, Len(s)))

\* message.replace(/,/g, '')
RECURSIVE dropCommas(_)
dropCommas(s) ==
    IF Len(s) = 0 THEN ""
    ELSE (IF Char(s, 1) = "," THEN "" ELSE Char(s, 1)) \o dropCommas(SubSeq(s, 2, Len(s)))

\* the longest prefix of s made of digits
RECURSIVE digitPrefix(_)
digitPrefix(s) ==
    IF Len(s) > 0 /\ IsDigit(Char(s, 1))
    THEN Char(s, 1) \o digitPrefix(SubSeq(s, 2, Len(s)))
    ELSE ""

\* message.match(/\d+/): the first run of digits of s, "" when s has no digit
RECURSIVE firstDigitRun(_)
firstDigitRun(s) ==
    IF Len(s) = 0 THEN ""
    ELSE IF IsDigit(Char(s, 1)) THEN digitPrefix(s)
    ELSE firstDigitRun(SubSeq(s, 2, Len(s)))

\* parseInt(d, 10) of a non-empty string of digits
RECURSIVE parseDigits(_)
parseDigits(d) ==
    IF Len(d) = 0 THEN 0
    ELSE 10 * parseDigits(SubSeq(d, 1, Len(d) - 1)) + DigitValue(Char(d, Len(d)))

\* Number.prototype.toString of a natural number
RECURSIVE numToString(_)
numToString(n) ==
    IF n < 10 THEN Char(DIGITS, n + 1)
    ELSE numToString(n \div 10) \o Char(DIGITS, (n % 10) + 1)

\* three digits, zero padded
pad3(n) == Char(DIGITS, (n \div 100) + 1) \o Char(DIGITS, ((n \div 10) % 10) + 1)
              \o Char(DIGITS, (n % 10) + 1)

\* Number.prototype.toLocaleString('en-CA') of a natural number: groups of three
RECURSIVE toLocaleString(_)
toLocaleString(n) ==
    IF n < 1000 THEN numToString(n)
    ELSE toLocaleString(n \div 1000) \o "," \o pad3(n % 1000)

\* s.split(sep)[1] with a case-insensitive literal separator: the text between
\* the first and the second occurrence of sep; NULL when sep does not occur
splitSecond(s, sep) ==
    LET low == toLowerCase(s)
        i == indexOf(low, sep)
        rest == SubSeq(s, i + Len(sep), Len(s))
        j == indexOf(toLowerCase(rest), sep)
    IN  IF i = 0 THEN NULL
        ELSE IF j = 0 THEN rest ELSE SubSeq(rest, 1, j - 1)


(***************************************************************************)
(* Extraction utilities of src/index.js.                                   *)
(***************************************************************************)
\* a nullable integer: None is JS null, Some(n) the number n
None == <<>>
Some(n) == <<n>>

\* extractBudget: parseInt of all digits of the message taken together
extractBudget(message) ==
    LET digits == keepDigits(message)
    IN  IF digits = "" THEN None ELSE Some(parseDigits(digits))

\* length of the match of /i[' ]?m/ at position p of low (0: no match there)
imMatchLen(low, p) ==
    IF Char(low, p) # "i" THEN 0
    ELSE IF p + 2 <= Len(low) /\ Char(low, p + 1) \in {"'", " "} /\ Char(low, p + 2) = "m"
         THEN 3
    ELSE IF p + 1 <= Len(low) /\ Char(low, p + 1) = "m" THEN 2
    ELSE 0

\* message.split(/i[' ]?m/i)[1]
splitSecondIm(s) ==
    LET low == toLowerCase(s)
        hits(l) == {p \in 1..Len(l) : imMatchLen(l, p) > 0}
        first(l) == CHOOSE p \in hits(l) : \A q \in hits(l) : p <= q
    IN  IF hits(low) = {} THEN NULL
        ELSE LET i == first(low)
                 rest == SubSeq(s, i + imMatchLen(low, i), Len(s))
                 lrest == toLowerCase(rest)
             IN  IF hits(lrest) = {} THEN rest
                 ELSE SubSeq(rest, 1, first(lrest) - 1)

\* s?.trim()
trimOpt(s) == IF s = NULL THEN NULL ELSE trim(s)

extractNameFromMessage(message) ==
    LET lower == toLowerCase(message)
        name0 == IF includes(lower, "my name is")
                    THEN trimOpt(splitSecond(message, "my name is"))
                 ELSE IF includes(lower, "i'm ") \/ includes(lower, "im ")
                    THEN trimOpt(splitSecondIm(message))
                 ELSE IF includes(lower, "i am ")
                    THEN trimOpt(splitSecond(message, "i am"))
                 ELSE NULL
        name1 == trim(keepLettersAndSpaces(name0))
    IN  IF ~Truthy(name0) THEN NULL
        ELSE IF ~Truthy(name1) THEN NULL
        ELSE toUpperCase(Char(name1, 1)) \o toLowerCase(SubSeq(name1, 2, Len(name1)))

normalizeVagueDatetime(message) ==
    LET lower == trim(toLowerCase(message))
        part(day) == IF includes(lower, "morning") THEN day \o " morning"
                     ELSE IF includes(lower, "afternoon") THEN day \o " afternoon"
                     ELSE IF includes(lower, "evening") \/ includes(lower, "tonight")
                        THEN day \o " evening"
                     ELSE day \o " afternoon"
    IN  IF includes(lower, "today") THEN part("Today")
        ELSE IF includes(lower, "tomorrow") THEN part("Tomorrow")
        ELSE IF includes(lower, "this weekend") \/ includes(lower, "weekend") THEN "This weekend"
        ELSE IF includes(lower, "next week") THEN "Next week"
        ELSE IF includes(lower, "this morning") THEN "Today morning"
        ELSE IF includes(lower, "this afternoon") THEN "Today afternoon"
        ELSE IF includes(lower, "this evening") \/ includes(lower, "tonight") THEN "Today evening"
        ELSE message

(***************************************************************************)
(* The conversation store (PostgreSQL tables of src/unnamed/part_000).     *)
(*                                                                         *)
(* db.customers      set of rows [phone, name]; phone is UNIQUE            *)
(* db.conversations  set of rows; id is the SERIAL key, started_at grows   *)
(*                   with id; updated_at counts the writes of the row      *)
(* db.messages, db.appointments, db.callbacks, db.analytics                *)
(*                   sets of rows.  The SERIAL id of such a row is the     *)
(*                   number of the request that inserted it (column        *)
(*                   `turn`); a request inserts a given row at most once.  *)
(*                   How the ids of rows of different requests compare is  *)
(*                   not modelled.                                         *)
(* db.conv_seq       the conversations_id_seq sequence                     *)
(***************************************************************************)
EmptyDb ==
    [customers |-> {}, conversations |-> {}, conv_seq |-> 0, messages |-> {},
     appointments |-> {}, callbacks |-> {}, analytics |-> {}]

\* a conversation inserted one message away from its confirmation, in place
\* of the column defaults
NewConversationAtDatetime(id, phone) ==
    [id |-> id, customer_phone |-> phone, status |-> "active", stage |-> "datetime",
     vehicle_type |-> "SUV", budget |-> "$30k-$50k", budget_amount |-> Some(40000),
     intent |-> "callback", customer_name |-> NULL, datetime |-> NULL, updated_at |-> 0]

\* INSERT INTO conversations (customer_phone, status, stage): the column defaults
NewConversation(id, phone) ==
    [id |-> id, customer_phone |-> phone, status |-> "active", stage |-> "greeting",
     vehicle_type |-> NULL, budget |-> NULL, budget_amount |-> None, intent |-> NULL,
     customer_name |-> NULL, datetime |-> NULL, updated_at |-> 0]

\* src/unnamed/part_002: INSERT INTO conversations (customerphone).  Its tables
\* have the columns of the other files with the underscores left out
\* (customerphone, vehicletype, ...), written here under the names above, and
\* one more column, lastmessage.  The file tests the stage of its rows for
\* NULL and 'initial' alike; a new row is taken to hold NULL.
NewConversationPart2(id, phone) ==
    [id |-> id, customer_phone |-> phone, status |-> "active", stage |-> NULL,
     vehicle_type |-> NULL, budget |-> NULL, budget_amount |-> None, intent |-> NULL,
     customer_name |-> NULL, datetime |-> NULL, updated_at |-> 0, lastmessage |-> NULL]

\* the row getOrCreateConversation inserts
InsertedConversation(v, id, phone) ==
    IF v = "part2" THEN NewConversationPart2(id, phone) ELSE NewConversation(id, phone)

\* the value of a handler's local `conversation` before it is assigned
NoRow == [NewConversation(0, NULL) EXCEPT !.status = NULL, !.stage = NULL]

\* SELECT * FROM customers WHERE phone = $1
SelectCustomer(db, phone) == {c \in db.customers : c.phone = phone}

\* INSERT INTO customers (phone) VALUES ($1); the UNIQUE(phone) constraint
\* makes the statement fail when the phone is already there
CanInsertCustomer(db, phone) == SelectCustomer(db, phone) = {}
InsertCustomer(db, phone) ==
    [db EXCEPT !.customers = @ \cup {[phone |-> phone, name |-> NULL]}]

\* UPDATE customers SET name = $1, last_contact = ... WHERE phone = $2
UpdateCustomerName(db, phone, name) ==
    [db EXCEPT !.customers =
        {IF c.phone = phone THEN [c EXCEPT !.name = name] ELSE c : c \in @}]

\* the same query without its test of the status
ConversationsOfPhone(db, phone) ==
    {c \in db.conversations : c.customer_phone = phone}

\* SELECT * FROM conversations WHERE customer_phone = $1 AND status = 'active'
ActiveConversations(db, phone) ==
    {c \in db.conversations : c.customer_phone = phone /\ c.status = "active"}

\* ... ORDER BY started_at DESC LIMIT 1, of a non-empty set of rows
Latest(rows) == CHOOSE c \in rows : \A d \in rows : d.id <= c.id

\* SELECT * FROM conversations WHERE id = $1, as rows[0] || fallback
ConversationById(db, id, fallback) ==
    IF \E c \in db.conversations : c.id = id
    THEN CHOOSE c \in db.conversations : c.id = id
    ELSE fallback

InsertConversation(v, db, phone) ==
    [db EXCEPT !.conv_seq = @ + 1,
               !.conversations = @ \cup {InsertedConversation(v, db.conv_seq + 1, phone)}]

\* UPDATE conversations SET updated_at = CURRENT_TIMESTAMP WHERE id = $1
touchConversation(db, id) ==
    [db EXCEPT !.conversations =
        {IF c.id = id THEN [c EXCEPT !.updated_at = @ + 1] ELSE c : c \in @}]

\* row with the columns named in updates overwritten
Patch(row, updates) ==
    [f \in DOMAIN row |-> IF f \in DOMAIN updates THEN updates[f] ELSE row[f]]

\* the UPDATE without its WHERE clause
updateEveryConversation(db, id, updates) ==
    [db EXCEPT !.conversations =
        {[Patch(c, updates) EXCEPT !.updated_at = @ + 1] : c \in @}]

\* updateConversation: UPDATE conversations SET k1 = $1, ..., updated_at = ...
\* WHERE id = $n.  No row with that id: the statement changes nothing.
updateConversation(db, id, updates) ==
    [db EXCEPT !.conversations =
        {IF c.id = id THEN [Patch(c, updates) EXCEPT !.updated_at = @ + 1] ELSE c : c \in @}]

saveMessage(db, turn, conversationId, phone, role, content) ==
    [db EXCEPT !.messages = @ \cup
        {[turn |-> turn, conversation_id |-> conversationId, customer_phone |-> phone,
          role |-> role, content |-> content]}]

\* data with the id of the new row
Row(turn, data) == [f \in DOMAIN data \cup {"turn"} |-> IF f = "turn" THEN turn ELSE data[f]]

saveAppointment(db, turn, data) == [db EXCEPT !.appointments = @ \cup {Row(turn, data)}]

saveCallback(db, turn, data) == [db EXCEPT !.callbacks = @ \cup {Row(turn, data)}]

logAnalytics(db, turn, eventType, phone) ==
    [db EXCEPT !.analytics = @ \cup
        {[turn |-> turn, event_type |-> eventType, customer_phone |-> phone]}]

(***************************************************************************)
(* The dialogue engine.  getJerryResponse reads nothing from the store     *)
(* after it was handed the conversation row, so what it does is a function *)
(* of (phone, message, conversation): the store statements it awaits, in   *)
(* order, and the reply it returns when none of them throws.  The reply    *)
(* texts are written in ASCII: the typographic apostrophes of the source   *)
(* are ' and its emoji are left out.                                       *)
(***************************************************************************)
UpdOp(id, updates) == [op |-> "updateConversation", id |-> id, updates |-> updates]
LogOp(eventType) == [op |-> "logAnalytics", event_type |-> eventType]
CustOp(name) == [op |-> "updateCustomer", name |-> name]
ApptOp(data) == [op |-> "saveAppointment", data |-> data]
CbOp(data) == [op |-> "saveCallback", data |-> data]
EmailOp(subject) == [op |-> "sendEmail", subject |-> subject]

Plan(ops, reply) == [ops |-> ops, reply |-> reply]

\* the appointments / callbacks row built from appointmentData
AppointmentData(phone, name, vehicleType, budget, budgetAmount, datetime) ==
    [customer_phone |-> phone, customer_name |-> name, vehicle_type |-> vehicleType,
     budget |-> budget, budget_amount |-> budgetAmount, datetime |-> datetime]

\* x || fallback for a nullable string
OrElse(x, fallback) == IF Truthy(x) THEN x ELSE fallback

(***************************************************************************)
(* getJerryResponse of src/index.js.                                       *)
(***************************************************************************)
\* no message is a location question
NoLocation(lowerMsg) == FALSE

IndexLocation(lowerMsg) ==
    \/ includes(lowerMsg, "location") \/ includes(lowerMsg, "where")
    \/ includes(lowerMsg, "address") \/ includes(lowerMsg, "dealership")
    \/ includes(lowerMsg, "calgary") \/ includes(lowerMsg, "alberta")

IndexManager(lowerMsg) ==
    \/ includes(lowerMsg, "manager") \/ includes(lowerMsg, "call")
    \/ includes(lowerMsg, "more info") \/ includes(lowerMsg, "details")

IndexInventory(lowerMsg) ==
    \/ includes(lowerMsg, "inventory") \/ includes(lowerMsg, "photos")
    \/ includes(lowerMsg, "pictures") \/ includes(lowerMsg, "see vehicles")

\* the stage handlers, entered when no interrupt and no name capture applied
IndexStages(phone, message, conversation) ==
    LET lowerMsg == toLowerCase(message)
        id == conversation.id
        stage == OrElse(conversation.stage, "greeting")
        vehicleType0 == conversation.vehicle_type
        budget0 == conversation.budget
        intent0 == conversation.intent
        datetime == conversation.datetime
        name == OrElse(conversation.customer_name, "there")
    IN
    IF IndexInventory(lowerMsg) THEN
        Plan(<<>>, "Great question! I'll have one of our managers text you photos of "
                   \o OrElse(vehicleType0, "vehicles")
                   \o " in your budget range. They'll reach out shortly.")
    ELSE IF stage = "greeting" \/ ~Truthy(vehicleType0) THEN
        LET vehicleType == IF includes(lowerMsg, "suv") THEN "SUV"
                           ELSE IF includes(lowerMsg, "truck") THEN "Truck"
                           ELSE IF includes(lowerMsg, "sedan") THEN "Sedan"
                           ELSE vehicleType0
        IN  IF Truthy(vehicleType) THEN
                Plan(<<UpdOp(id, [vehicle_type |-> vehicleType, stage |-> "budget"]),
                       LogOp("vehicle_type_selected")>>,
                     "Great choice on a " \o vehicleType
                     \o "! What budget range are you thinking? (e.g. 15k, 25k, 40k, 60k)")
            ELSE
                Plan(<<>>, "Awesome, I can help with that. What type of vehicle are you most interested in? (SUV, Truck, Sedan, etc.)")
    ELSE IF stage = "budget" \/ ~Truthy(budget0) THEN
        LET budgetAmount == extractBudget(message)
        IN  IF budgetAmount = None \/ budgetAmount = Some(0) THEN
                Plan(<<>>, "Got it. To narrow things down, roughly what budget range are you thinking? (e.g. 15k, 25k, 40k, 60k)")
            ELSE
                LET budget == "$" \o toLocaleString(budgetAmount[1])
                IN  Plan(<<UpdOp(id, [budget |-> budget, budget_amount |-> budgetAmount,
                                      stage |-> "intent"]),
                           LogOp("budget_captured")>>,
                         "Perfect, I'll focus on options around " \o budget
                         \o ". Would you prefer to book a quick test drive or have a manager give you a call first?")
    ELSE IF stage = "intent" \/ ~Truthy(intent0) THEN
        IF includes(lowerMsg, "test drive") \/ includes(lowerMsg, "testdrive")
           \/ includes(lowerMsg, "drive") THEN
            Plan(<<UpdOp(id, [intent |-> "testdrive", stage |-> "datetime"]),
                   LogOp("intent_testdrive")>>,
                 "Awesome! When works best for your test drive? (e.g. Tomorrow afternoon, Saturday morning, Next week)")
        ELSE IF includes(lowerMsg, "call") \/ includes(lowerMsg, "phone") THEN
            Plan(<<UpdOp(id, [intent |-> "callback", stage |-> "datetime"]),
                   LogOp("intent_callback")>>,
                 "No problem! What time works best for a quick call? (e.g. Tomorrow at 2pm, Friday morning, This evening)")
        ELSE
            Plan(<<>>, "Would you like to book a quick test drive or have a manager give you a call first?")
    ELSE IF stage = "datetime" \/ ~Truthy(datetime) THEN
        LET finalDateTime == normalizeVagueDatetime(message)
            appointmentData ==
                AppointmentData(phone, name, vehicleType0, budget0,
                                IF conversation.budget_amount = Some(0) THEN None
                                ELSE conversation.budget_amount,
                                finalDateTime)
            update == UpdOp(id, [datetime |-> finalDateTime, stage |-> "confirmed",
                                 status |-> "converted"])
        IN  IF intent0 = "testdrive" THEN
                Plan(<<update, ApptOp(appointmentData), LogOp("appointment_booked"),
                       EmailOp("Test Drive - " \o name)>>,
                     "Perfect " \o name \o "! I've booked your test drive for \""
                     \o finalDateTime
                     \o "\". We're in Calgary, Alberta and we can deliver across Canada. You'll also get a confirmation from our team. Reply STOP to opt out.")
            ELSE
                Plan(<<update, CbOp(appointmentData), LogOp("callback_requested"),
                       EmailOp("Callback - " \o name)>>,
                     "Got it " \o name \o "! One of our managers will call you around \""
                     \o finalDateTime
                     \o "\" with options that fit your budget. Reply STOP to opt out.")
    ELSE IF stage = "confirmed" THEN
        IF includes(lowerMsg, "reschedule") \/ includes(lowerMsg, "change")
           \/ includes(lowerMsg, "different time") THEN
            Plan(<<UpdOp(id, [stage |-> "datetime"])>>,
                 "No problem at all. What time works better for you? (e.g. Friday afternoon, Next Tuesday, This weekend)")
        ELSE IF includes(lowerMsg, "cancel") THEN
            Plan(<<UpdOp(id, [status |-> "cancelled"]), LogOp("appointment_cancelled")>>,
                 "No worries, I've cancelled that for you. If you change your mind, just text me again and we'll set something up.")
        ELSE
            Plan(<<>>, "Thanks " \o name \o "! You're confirmed for \"" \o datetime
                       \o "\". If you want to reschedule, just say RESCHEDULE.")
    ELSE
        Plan(<<>>, "Thanks " \o name \o "! I've noted that. If you want to book a test drive or a quick call, just mention \"test drive\" or \"call\" and I'll help you set it up.")

getJerryResponseIndex(phone, message, conversation) ==
    LET lowerMsg == toLowerCase(message)
        id == conversation.id
        maybeName == extractNameFromMessage(message)
    IN
    IF includes(lowerMsg, "stop") THEN
        Plan(<<UpdOp(id, [status |-> "stopped"]), LogOp("conversation_stopped")>>,
             "You've been unsubscribed. Reply START if you ever want to chat again.")
    ELSE IF includes(lowerMsg, "start") /\ conversation.status = "stopped" THEN
        Plan(<<UpdOp(id, [status |-> "active"]), LogOp("conversation_resumed")>>,
             "Welcome back! What type of vehicle are you most interested in? (SUV, Truck, Sedan, etc.)")
    ELSE IF IndexLocation(lowerMsg) THEN
        Plan(<<>>, "We are based in Calgary, Alberta and we can deliver vehicles all across Canada. If you'd like exact directions or store details, I can also have a manager call you.")
    ELSE IF IndexManager(lowerMsg) THEN
        Plan(<<UpdOp(id, [intent |-> "callback"])>>,
             "No problem! What's the best time for a quick call? (e.g. Tomorrow at 2pm, Friday morning, This evening)")
    ELSE IF Truthy(maybeName) THEN
        Plan(<<UpdOp(id, [customer_name |-> maybeName]), CustOp(maybeName)>>,
             IF conversation.intent = "testdrive"
             THEN "Nice to meet you, " \o maybeName
                  \o "! When works best for your test drive? (e.g. Tomorrow afternoon, Saturday morning, Next week)"
             ELSE "Nice to meet you, " \o maybeName
                  \o "! What time works best for a quick call? (e.g. Tomorrow at 2pm, Friday morning, This evening)")
    ELSE IndexStages(phone, message, conversation)

(***************************************************************************)
(* getJerryResponse of src/unnamed/part_001.                               *)
(***************************************************************************)
\* the budget stage's inline parsing: first run of digits, "k" multiplier,
\* then the comma re-extraction; 0 when the message has no digit
Part1BudgetAmount(message) ==
    LET lowerMsg == toLowerCase(message)
        first == firstDigitRun(message)
        n0 == parseDigits(first)
        n1 == IF includes(lowerMsg, "k") /\ n0 < 1000 THEN n0 * 1000 ELSE n0
        extracted == firstDigitRun(dropCommas(message))
    IN  IF first = "" THEN 0
        ELSE IF includes(message, ",") /\ extracted # "" THEN parseDigits(extracted)
        ELSE n1

Part1BudgetRange(budgetAmount) ==
    IF budgetAmount < 30000 THEN "Under $30k"
    ELSE IF budgetAmount >= 30000 /\ budgetAmount <= 50000 THEN "$30k-$50k"
    ELSE "$50k+"

\* (budgetAmount / 1000).toFixed(0)
toFixed0Thousands(budgetAmount) == numToString((budgetAmount + 500) \div 1000)

\* the name stage's inline extraction
Part1Name(message) ==
    LET lowerMsg == toLowerCase(message)
        name == IF includes(lowerMsg, "my name is") THEN trim(splitSecond(message, "my name is"))
                ELSE IF includes(lowerMsg, "i'm") THEN trim(splitSecond(message, "i'm"))
                ELSE IF includes(lowerMsg, "i am") THEN trim(splitSecond(message, "i am"))
                ELSE trim(message)
    IN  IF name = "" THEN "" ELSE toUpperCase(Char(name, 1)) \o SubSeq(name, 2, Len(name))

Part1Menu == "Would you like to:\n1 Book a test drive\n2 Schedule a call back\n"

getJerryResponsePart1(phone, message, conversation) ==
    LET lowerMsg == toLowerCase(message)
        id == conversation.id
    IN
    IF lowerMsg = "stop" THEN
        Plan(<<UpdOp(id, [status |-> "stopped"]), LogOp("conversation_stopped")>>,
             "You've been unsubscribed. Reply START to resume.")
    ELSE IF IndexLocation(lowerMsg) THEN
        Plan(<<>>, "We're located in Calgary, Alberta, and we deliver vehicles all across Canada! If you'd like specific dealership details or directions, I can have a manager call you back shortly. Just let me know!")
    ELSE IF \/ includes(lowerMsg, "detail") \/ includes(lowerMsg, "more info")
            \/ includes(lowerMsg, "tell me more")
            \/ (includes(lowerMsg, "manager") /\ includes(lowerMsg, "call")) THEN
        Plan(<<>>, "I'd be happy to have one of our managers reach out to you with all the details! What's the best time to call you? (e.g., Tomorrow at 2pm, This afternoon, Friday morning)")
    ELSE IF conversation.stage = "greeting" \/ ~Truthy(conversation.vehicle_type) THEN
        IF includes(lowerMsg, "suv") THEN
            Plan(<<UpdOp(id, [vehicle_type |-> "SUV", stage |-> "budget"])>>,
                 "Great choice! SUVs are very popular. What's your budget range? (e.g., $15k, $25k, $40k, $60k+)")
        ELSE IF includes(lowerMsg, "truck") THEN
            Plan(<<UpdOp(id, [vehicle_type |-> "Truck", stage |-> "budget"])>>,
                 "Awesome! Trucks are great. What's your budget range? (e.g., $15k, $25k, $40k, $60k+)")
        ELSE IF includes(lowerMsg, "sedan") THEN
            Plan(<<UpdOp(id, [vehicle_type |-> "Sedan", stage |-> "budget"])>>,
                 "Perfect! Sedans are reliable. What's your budget range? (e.g., $15k, $25k, $40k, $60k+)")
        ELSE IF \/ includes(lowerMsg, "car") \/ includes(lowerMsg, "vehicle")
                \/ includes(lowerMsg, "yes") \/ includes(lowerMsg, "interested")
                \/ includes(lowerMsg, "want") \/ includes(lowerMsg, "looking") THEN
            Plan(<<UpdOp(id, [vehicle_type |-> "Vehicle", stage |-> "budget"])>>,
                 "Great! What's your budget range? (e.g., $15k, $25k, $40k, $60k+)")
        ELSE
            Plan(<<>>, "What type of vehicle interests you? We have SUVs, Trucks, Sedans, Coupes, and more!")
    ELSE IF conversation.stage = "budget" /\ ~Truthy(conversation.budget) THEN
        LET budgetAmount == Part1BudgetAmount(message)
        IN  IF budgetAmount > 0 THEN
                Plan(<<UpdOp(id, [budget |-> Part1BudgetRange(budgetAmount),
                                  budget_amount |-> Some(budgetAmount),
                                  stage |-> "appointment"])>>,
                     "Perfect! I have some great " \o conversation.vehicle_type \o "s around $"
                     \o toFixed0Thousands(budgetAmount) \o "k. " \o Part1Menu
                     \o "Just reply 1 or 2!")
            ELSE IF \/ includes(lowerMsg, "cheap") \/ includes(lowerMsg, "low")
                    \/ includes(lowerMsg, "budget") THEN
                Plan(<<UpdOp(id, [budget |-> "Under $30k", stage |-> "appointment"])>>,
                     "Got it! I have great budget-friendly options. " \o Part1Menu
                     \o "Reply 1 or 2!")
            ELSE IF \/ includes(lowerMsg, "high") \/ includes(lowerMsg, "premium")
                    \/ includes(lowerMsg, "luxury") THEN
                Plan(<<UpdOp(id, [budget |-> "$50k+", stage |-> "appointment"])>>,
                     "Excellent! I have some premium options. " \o Part1Menu
                     \o "Reply 1 or 2!")
            ELSE
                Plan(<<>>, "What's your budget? Just give me a number like $15k, $20k, $40k, etc.")
    ELSE IF conversation.stage = "appointment" /\ ~Truthy(conversation.intent) THEN
        IF \/ includes(lowerMsg, "1") \/ includes(lowerMsg, "test")
           \/ includes(lowerMsg, "drive") \/ includes(lowerMsg, "appointment")
           \/ includes(lowerMsg, "visit") THEN
            Plan(<<UpdOp(id, [intent |-> "test_drive", stage |-> "name"])>>,
                 "Awesome! What's your name?")
        ELSE IF \/ includes(lowerMsg, "2") \/ includes(lowerMsg, "call")
                \/ includes(lowerMsg, "phone") \/ includes(lowerMsg, "talk") THEN
            Plan(<<UpdOp(id, [intent |-> "callback", stage |-> "name"])>>,
                 "Great! What's your name?")
        ELSE
            Plan(<<>>, Part1Menu \o "Just reply 1 or 2!")
    ELSE IF conversation.stage = "name" /\ ~Truthy(conversation.customer_name) THEN
        LET name == Part1Name(message)
        IN  Plan(<<UpdOp(id, [customer_name |-> name, stage |-> "datetime"]), CustOp(name)>>,
                 IF conversation.intent = "test_drive"
                 THEN "Nice to meet you, " \o name
                      \o "! When works best for your test drive? (e.g., Tomorrow afternoon, Saturday morning, Next week)"
                 ELSE "Nice to meet you, " \o name
                      \o "! When's the best time to call you? (e.g., Tomorrow at 2pm, Friday morning, This evening)")
    ELSE IF conversation.stage = "datetime" /\ ~Truthy(conversation.datetime) THEN
        LET appointmentData ==
                AppointmentData(phone, conversation.customer_name, conversation.vehicle_type,
                                conversation.budget, conversation.budget_amount, message)
            update == UpdOp(id, [datetime |-> message, stage |-> "confirmed",
                                 status |-> "converted"])
        IN  IF conversation.intent = "test_drive" THEN
                Plan(<<update, ApptOp(appointmentData),
                       EmailOp("Test Drive: " \o conversation.customer_name),
                       LogOp("appointment_booked")>>,
                     "Perfect " \o conversation.customer_name
                     \o "! I've booked your test drive for " \o message
                     \o ".\n\nWe're in Calgary, Alberta and we deliver all across Canada!\nConfirmation sent!\n\nLooking forward to seeing you! Reply STOP to opt out.")
            ELSE
                Plan(<<update, CbOp(appointmentData),
                       EmailOp("Callback: " \o conversation.customer_name),
                       LogOp("callback_requested")>>,
                     "Got it " \o conversation.customer_name
                     \o "! One of our managers will call you " \o message
                     \o " with all the details.\n\nWe're excited to help you find your perfect "
                     \o conversation.vehicle_type \o "!\n\nTalk soon! Reply STOP to opt out.")
    ELSE IF conversation.stage = "confirmed" THEN
        Plan(<<>>, "Thanks " \o conversation.customer_name \o "! We're all set for "
                   \o conversation.datetime
                   \o ". If you need anything or want to reschedule, just let me know! We're located in Calgary, AB and deliver across Canada.")
    ELSE
        Plan(<<>>, "Thanks for your message! To help you better, let me know:\n* What type of vehicle? (SUV, Sedan, Truck)\n* Your budget? (e.g., $20k)\n* Test drive or callback?")

(***************************************************************************)
(* getJerryResponse of src/unnamed/part_002.                               *)
(***************************************************************************)
\* message.match(/\$?(\d+)k?/i): parseInt of the first run of digits, times
\* 1000 when the message holds a "k"; None when it holds no digit
Part2BudgetAmount(message) ==
    LET first == firstDigitRun(message)
    IN  IF first = "" THEN None
        ELSE Some(parseDigits(first) * (IF includes(message, "k") THEN 1000 ELSE 1))

Part2Menu == "Would you like to:\n1. Schedule an appointment\n2. Request a callback\n\nReply with 1 or 2"

getJerryResponsePart2(phone, userMessage, conversation) ==
    LET message == trim(toLowerCase(userMessage))
        id == conversation.id
    IN
    IF ~Truthy(conversation.stage) \/ conversation.stage = "initial" THEN
        IF includes(message, "truck") \/ includes(message, "pickup") THEN
            Plan(<<UpdOp(id, [stage |-> "budget", vehicle_type |-> "Truck"])>>,
                 "Awesome! Trucks are great. What's your budget range? (e.g., $15k, $25k, $40k, $60k+)")
        ELSE IF includes(message, "car") \/ includes(message, "sedan")
                \/ includes(message, "suv") THEN
            LET type == IF includes(message, "suv") THEN "SUV" ELSE "Car"
            IN  Plan(<<UpdOp(id, [stage |-> "budget", vehicle_type |-> type])>>,
                     "Perfect! " \o type
                     \o "s are popular. What's your budget range? (e.g., $15k, $25k, $40k, $60k+)")
        ELSE
            Plan(<<>>, "Hi! I'm Jerry, your vehicle specialist at First Financial. What type of vehicle are you looking for? (Truck, Car, SUV)")
    ELSE IF conversation.stage = "budget" THEN
        LET amount == Part2BudgetAmount(message)
        IN  IF amount # None THEN
                Plan(<<UpdOp(id, [stage |-> "name", budget |-> "$" \o numToString(amount[1]),
                                  budget_amount |-> amount])>>,
                     "Great! I can help with that budget. What's your name?")
            ELSE
                Plan(<<>>, "What's your budget range? (e.g., $15k, $25k, $40k, $60k+)")
    ELSE IF conversation.stage = "name" THEN
        Plan(<<UpdOp(id, [stage |-> "appointment", customer_name |-> trim(userMessage)])>>,
             "Nice to meet you, " \o trim(userMessage) \o "! " \o Part2Menu)
    ELSE IF conversation.stage = "appointment" THEN
        IF includes(message, "1") \/ includes(message, "appointment") THEN
            Plan(<<UpdOp(id, [stage |-> "datetime"])>>,
                 "When would you like to come in? (e.g., 'Tomorrow at 2pm', 'Friday morning')")
        ELSE IF includes(message, "2") \/ includes(message, "callback") THEN
            Plan(<<UpdOp(id, [stage |-> "datetime"])>>,
                 "When's a good time to call you? (e.g., 'Tomorrow at 2pm', 'Friday morning')")
        ELSE
            Plan(<<>>, "Reply with 1 for appointment or 2 for callback")
    ELSE IF conversation.stage = "datetime" THEN
        LET appointmentData ==
                AppointmentData(phone, conversation.customer_name, conversation.vehicle_type,
                                conversation.budget, conversation.budget_amount,
                                trim(userMessage))
            update == UpdOp(id, [stage |-> "complete", status |-> "converted"])
        IN  IF /\ Truthy(conversation.lastmessage)
               /\ \/ includes(conversation.lastmessage, "appointment")
                  \/ includes(conversation.lastmessage, "come in") THEN
                Plan(<<ApptOp(appointmentData), update>>,
                     "Perfect! I've booked your appointment for " \o trim(userMessage)
                     \o ". We'll see you at First Financial Canada! If you need to change it, just text back.")
            ELSE
                Plan(<<CbOp(appointmentData), update>>,
                     "Perfect! We'll call you at " \o trim(userMessage)
                     \o ". Talk soon! If anything changes, just text back.")
    ELSE
        Plan(<<>>, "I didn't quite catch that. Can you rephrase?")

(***************************************************************************)
(* Request handlers.  A turn is one execution of a route handler; its      *)
(* record holds the handler's local variables and its position.            *)
(*                                                                         *)
(* Program(v, kind) lists a handler's awaited statements in source order.  *)
(* selectCustomer and selectConversation are the SELECT of getOrCreate-    *)
(* Customer / getOrCreateConversation; the statement that follows the      *)
(* SELECT (insertCustomer, insertConversation, continueConversation) is a  *)
(* step of its own.  "engine" stands for the statements getJerryResponse   *)
(* awaits, one step each.                                                  *)
(***************************************************************************)
\* the engine of src/index.js entered at its stage handlers, past the STOP check
getJerryResponseNoStop(v, phone, message, conversation) ==
    IF v = "index" THEN IndexStages(phone, message, conversation)
    ELSE IF v = "part1" THEN getJerryResponsePart1(phone, message, conversation)
    ELSE getJerryResponsePart2(phone, message, conversation)

getJerryResponse(v, phone, message, conversation) ==
    IF v = "index" THEN getJerryResponseIndex(phone, message, conversation)
    ELSE IF v = "part1" THEN getJerryResponsePart1(phone, message, conversation)
    ELSE getJerryResponsePart2(phone, message, conversation)

\* the webhook answering the provider after its work
WebhookProgramAckLast(v) ==
    IF v = "index"
    THEN <<"selectCustomer", "selectConversation", "saveUserMessage",
           "touchConversation", "logAnalytics", "reread", "engine",
           "saveAssistantMessage", "sendSms", "emailNotify", "ack">>
    ELSE IF v = "part1"
    THEN <<"selectCustomer", "selectConversation", "saveUserMessage",
           "emailNotify", "touchConversation", "logAnalytics", "engine",
           "saveAssistantMessage", "sendSms", "ack">>
    ELSE <<"selectCustomer", "selectConversation", "saveUserMessage",
           "emailNotify", "touchConversation", "logAnalytics", "engine",
           "saveAssistantMessage", "sendSms", "storeLastMessage", "ack">>

\* src/unnamed/part_002 does its work inside the request and answers the
\* provider at the end
WebhookProgram(v) ==
    IF v = "index"
    THEN <<"ack", "selectCustomer", "selectConversation", "saveUserMessage",
           "touchConversation", "logAnalytics", "reread", "engine",
           "saveAssistantMessage", "sendSms", "emailNotify">>
    ELSE IF v = "part1"
    THEN <<"ack", "selectCustomer", "selectConversation", "saveUserMessage",
           "emailNotify", "touchConversation", "logAnalytics", "engine",
           "saveAssistantMessage", "sendSms">>
    ELSE <<"selectCustomer", "selectConversation", "saveUserMessage",
           "emailNotify", "touchConversation", "logAnalytics", "engine",
           "saveAssistantMessage", "sendSms", "storeLastMessage", "ack">>

StartSmsProgram(v) ==
    IF v = "index"
    THEN <<"hasActiveConversation", "selectCustomer", "selectConversation",
           "saveAssistantMessage", "logAnalytics", "sendSms", "respond">>
    ELSE <<"hasActiveConversation", "selectCustomer", "selectConversation",
           "logAnalytics", "sendSms", "respond">>

\* a manual reply that hands the operator's text to getJerryResponse
ManualReplyThroughEngine(v) ==
    <<"selectConversation", "engine", "saveAssistantMessage", "touchConversation",
      "logAnalytics", "sendSms", "respond">>

ManualReplyProgram(v) ==
    <<"selectConversation", "saveAssistantMessage", "touchConversation",
      "logAnalytics", "sendSms", "respond">>

\* DELETE /api/conversation/:phone: deleteConversationByPhone of src/index.js
\* also deletes the phone's appointments and callbacks, deleteConversation of
\* src/unnamed/part_001 does not
DeleteProgram(v) ==
    IF v = "index"
    THEN <<"deleteSelect", "deleteMessages", "deleteAppointments", "deleteCallbacks",
           "deleteConversation", "respond">>
    ELSE <<"deleteSelect", "deleteMessages", "deleteConversation", "respond">>

Program(v, kind) ==
    IF kind = "webhook" THEN WebhookProgram(v)
    ELSE IF kind = "start" THEN StartSmsProgram(v)
    ELSE IF kind = "manual" THEN ManualReplyProgram(v)
    ELSE DeleteProgram(v)

\* the statement after `label` in the handler, "done" after the last one
After(v, kind, label) ==
    LET P == Program(v, kind)
        i == CHOOSE k \in 1..Len(P) : P[k] = label
    IN  IF i = Len(P) THEN "done" ELSE P[i + 1]

DefaultCampaignMessage ==
    "Hi! I'm Jerry from the dealership. I wanted to reach out and see if you're interested in finding your perfect vehicle. What type of car are you looking for? Reply STOP to opt out."

\* the handler's locals on entry; id numbers the requests in order of arrival
NewTurn(v, id, kind, phone, message) ==
    [id |-> id, kind |-> kind, phone |-> phone, message |-> message,
     pc |-> "entry",
     conversation |-> NoRow, latestConv |-> NoRow,
     next_op |-> 1, aiResponse |-> NULL,
     responses |-> <<>>, trace |-> <<>>]

Terminal == {"done", "failed"}

\* the text this turn stores and sends as the assistant's message
OutboundBody(t) ==
    IF t.kind = "webhook" THEN t.aiResponse
    ELSE IF t.kind = "start" THEN OrElse(t.message, DefaultCampaignMessage)
    ELSE t.message

AnalyticsEvent(t) ==
    IF t.kind = "webhook" THEN "message_received"
    ELSE IF t.kind = "start" THEN "sms_sent"
    ELSE "manual_reply_sent"

\* the row the handler passes to getJerryResponse: index.js passes the row it
\* re-read by id, part_001 the row getOrCreateConversation returned
EngineInput(v, t) == IF v = "index" THEN t.latestConv ELSE t.conversation

Note(t, what) == [t EXCEPT !.trace = Append(@, what)]

\* control reaches `label`.  Statements that await nothing run at once, in the
\* same event-loop task: "ack" (res.type('text/xml').send('<Response>
\* </Response>')) and "respond" (res.json({success: true, ...})) answer the
\* HTTP request.  At "engine" getJerryResponse is called: it runs up to its
\* first awaited statement.
RECURSIVE Enter(_, _, _)
Enter(v, t, label) ==
    IF label = "ack" THEN
        Enter(v, Note([t EXCEPT !.responses = Append(@, "twiml")], label),
              After(v, t.kind, label))
    ELSE IF label = "respond" THEN
        Enter(v, Note([t EXCEPT !.responses = Append(@, "success")], label),
              After(v, t.kind, label))
    ELSE IF label = "engine" THEN
        Note([t EXCEPT !.pc = label, !.next_op = 1], "getJerryResponse")
    ELSE [t EXCEPT !.pc = label]

\* the request arrives: the handler runs up to its first awaited statement
Begin(v, id, kind, phone, message) ==
    Enter(v, NewTurn(v, id, kind, phone, message), Program(v, kind)[1])

\* the step at t.pc is over: note it and move to the statement after `label`
Proceed(v, t, label) == Enter(v, Note(t, t.pc), After(v, t.kind, label))

Result(db, t, out) == [db |-> db, t |-> t, out |-> out]

\* every handler answering with the error from its catch
ThrownAnswers(t) ==
    [t EXCEPT !.pc = "failed", !.trace = Append(@, t.pc),
              !.responses = Append(@, "error")]

\* the statement at t.pc throws and nothing inside the handler's try catches it
\* before its outer catch: the webhook's background task logs the error; the
\* webhook of src/unnamed/part_002, which has not answered yet, logs it and
\* answers with the empty TwiML; the start-sms and manual-reply handlers
\* answer res.json({success: false, ...})
Thrown(t) ==
    [t EXCEPT !.pc = "failed", !.trace = Append(@, t.pc),
              !.responses = IF t.kind # "webhook" THEN Append(@, "error")
                            ELSE IF @ = <<>> THEN Append(@, "twiml")
                            ELSE @]

\* FOREIGN KEY (customer_phone) REFERENCES customers(phone)
HasCustomer(db, phone) == SelectCustomer(db, phone) # {}
\* FOREIGN KEY (conversation_id) REFERENCES conversations(id)
HasConversation(db, id) == \E c \in db.conversations : c.id = id

Sms(t, body) == [turn |-> t.id, channel |-> "sms", to |-> t.phone, body |-> body]
Email(t, subject) == [turn |-> t.id, channel |-> "email", to |-> "dealer", body |-> subject]

\* one engine statement
ExecOp(db, t, o) ==
    IF o.op = "updateConversation" THEN Result(updateConversation(db, o.id, o.updates), t, {})
    ELSE IF o.op = "logAnalytics" THEN Result(logAnalytics(db, t.id, o.event_type, t.phone), t, {})
    ELSE IF o.op = "updateCustomer" THEN Result(UpdateCustomerName(db, t.phone, o.name), t, {})
    ELSE IF o.op = "saveAppointment" THEN Result(saveAppointment(db, t.id, o.data), t, {})
    ELSE IF o.op = "saveCallback" THEN Result(saveCallback(db, t.id, o.data), t, {})
    ELSE Result(db, t, {Email(t, o.subject)})

\* the statement at t.pc violates a constraint of the schema
ViolatesConstraint(db, t) ==
    \/ t.pc = "insertCustomer" /\ ~CanInsertCustomer(db, t.phone)
    \/ t.pc = "insertConversation" /\ ~HasCustomer(db, t.phone)
    \/ /\ t.pc \in {"saveUserMessage", "saveAssistantMessage"}
       /\ ~(HasConversation(db, t.conversation.id) /\ HasCustomer(db, t.phone))
    \/ /\ t.pc = "deleteConversation"
       /\ \E m \in db.messages : m.conversation_id = t.conversation.id

\* the statement at t.pc, which is not one of the engine's, succeeds
Exec(v, db, t) ==
    LET pc == t.pc IN
    IF ViolatesConstraint(db, t) THEN Result(db, Thrown(t), {})
    ELSE IF pc = "hasActiveConversation" THEN
        IF ActiveConversations(db, t.phone) # {}
        THEN Result(db, [Note(t, pc) EXCEPT !.responses = Append(@, "rejected"),
                                            !.pc = "done"], {})
        ELSE Result(db, Proceed(v, t, pc), {})
    ELSE IF pc = "selectCustomer" THEN
        IF SelectCustomer(db, t.phone) # {}
        THEN Result(db, Proceed(v, t, pc), {})
        ELSE Result(db, [Note(t, pc) EXCEPT !.pc = "insertCustomer"], {})
    ELSE IF pc = "insertCustomer" THEN
        Result(InsertCustomer(db, t.phone), Proceed(v, t, "selectCustomer"), {})
    ELSE IF pc = "selectConversation" THEN
        LET existing == ActiveConversations(db, t.phone) IN
        IF existing # {}
        THEN Result(db, [Note(t, pc) EXCEPT !.conversation = Latest(existing),
                                            !.pc = "continueConversation"], {})
        ELSE Result(db, [Note(t, pc) EXCEPT !.pc = "insertConversation"], {})
    ELSE IF pc = "continueConversation" THEN
        Result(touchConversation(db, t.conversation.id),
               Proceed(v, t, "selectConversation"), {})
    ELSE IF pc = "insertConversation" THEN
        Result(InsertConversation(v, db, t.phone),
               Proceed(v, [t EXCEPT !.conversation =
                               InsertedConversation(v, db.conv_seq + 1, t.phone)],
                       "selectConversation"), {})
    ELSE IF pc = "saveUserMessage" THEN
        Result(saveMessage(db, t.id, t.conversation.id, t.phone, "user", t.message),
               Proceed(v, t, pc), {})
    ELSE IF pc = "touchConversation" THEN
        Result(touchConversation(db, t.conversation.id), Proceed(v, t, pc), {})
    ELSE IF pc = "logAnalytics" THEN
        Result(logAnalytics(db, t.id, AnalyticsEvent(t), t.phone), Proceed(v, t, pc), {})
    ELSE IF pc = "reread" THEN
        Result(db, Proceed(v, [t EXCEPT !.latestConv =
                                  ConversationById(db, t.conversation.id, t.conversation)], pc),
               {})
    ELSE IF pc = "saveAssistantMessage" THEN
        Result(saveMessage(db, t.id, t.conversation.id, t.phone, "assistant", OutboundBody(t)),
               Proceed(v, t, pc), {})
    ELSE IF pc = "sendSms" THEN
        Result(db, Proceed(v, t, pc), {Sms(t, OutboundBody(t))})
    ELSE IF pc = "deleteSelect" THEN
        LET rows == {c \in db.conversations : c.customer_phone = t.phone} IN
        IF rows = {}
        THEN Result(db, [Note(t, pc) EXCEPT !.responses = Append(@, "not found"),
                                            !.pc = "done"], {})
        ELSE Result(db, Proceed(v, [t EXCEPT !.conversation = Latest(rows)], pc), {})
    ELSE IF pc = "deleteMessages" THEN
        Result([db EXCEPT !.messages = {m \in @ : m.conversation_id # t.conversation.id}],
               Proceed(v, t, pc), {})
    ELSE IF pc = "deleteAppointments" THEN
        Result([db EXCEPT !.appointments = {r \in @ : r.customer_phone # t.phone}],
               Proceed(v, t, pc), {})
    ELSE IF pc = "deleteCallbacks" THEN
        Result([db EXCEPT !.callbacks = {r \in @ : r.customer_phone # t.phone}],
               Proceed(v, t, pc), {})
    ELSE IF pc = "deleteConversation" THEN
        Result([db EXCEPT !.conversations = {c \in @ : c.id # t.conversation.id}],
               Proceed(v, t, pc), {})
    ELSE IF pc = "storeLastMessage" THEN
        Result(updateConversation(db, t.conversation.id, [lastmessage |-> t.aiResponse]),
               Proceed(v, t, pc), {})
    ELSE \* "emailNotify"
        Result(db, Proceed(v, t, pc), {Email(t, "New SMS from " \o t.phone)})

\* an engine statement is over, with result r: the engine awaits its next
\* statement or, after the last one of its plan, returns plan.reply.
\* t.next_op - 1 counts the statements of the plan that are over.
Continue(v, t, plan, r) ==
    IF t.next_op >= Len(plan.ops)
    THEN Result(r.db,
                Proceed(v, [r.t EXCEPT !.aiResponse = plan.reply, !.next_op = @ + 1], "engine"),
                r.out)
    ELSE Result(r.db, Note([r.t EXCEPT !.next_op = @ + 1], "engine"), r.out)

\* the turn is inside getJerryResponse, whose run on the turn's arguments is
\* plan: the statement it awaits succeeds; with nothing to await it returns
ExecEngine(v, db, t, plan) ==
    IF plan.ops = <<>> THEN Continue(v, t, plan, Result(db, t, {}))
    ELSE IF /\ plan.ops[t.next_op].op \in {"saveAppointment", "saveCallback"}
            /\ ~HasCustomer(db, t.phone)
    THEN Result(db, Thrown(t), {})
    ELSE Continue(v, t, plan, ExecOp(db, t, plan.ops[t.next_op]))

\* the statement at t.pc fails (store unavailable, provider error).  index.js
\* wraps logAnalytics in try/catch; sendEmailNotification catches its own
\* errors in both files; every other failure reaches the handler's catch.
Swallowed(v, t) ==
    \/ t.pc = "emailNotify"
    \/ t.pc = "logAnalytics" /\ v = "index"

\* a failure that takes back the messages the turn has stored
ExecFailUndo(v, db, t) ==
    Result([db EXCEPT !.messages = {m \in @ : m.turn # t.id}], Thrown(t), {})

ExecFail(v, db, t) ==
    IF Swallowed(v, t)
    THEN Result(db, Enter(v, Note(t, "failed:" \o t.pc), After(v, t.kind, t.pc)), {})
    ELSE Result(db, Thrown(t), {})

\* sendEmailNotification without its try/catch
SwallowedOpButEmail(v, o) == o.op = "logAnalytics" /\ v = "index"

SwallowedOp(v, o) ==
    \/ o.op = "sendEmail"
    \/ o.op = "logAnalytics" /\ v = "index"

\* the statement the engine awaits fails
ExecEngineFail(v, db, t, plan) ==
    IF SwallowedOp(v, plan.ops[t.next_op])
    THEN Continue(v, Note(t, "failed"), plan, Result(db, Note(t, "failed"), {}))
    ELSE Result(db, Thrown(t), {})

\* the statements that talk to the store, the SMS provider or the mail relay
CanFail == {"hasActiveConversation", "selectCustomer", "insertCustomer",
            "selectConversation", "continueConversation", "insertConversation",
            "saveUserMessage", "touchConversation", "logAnalytics", "reread",
            "saveAssistantMessage", "sendSms", "emailNotify", "storeLastMessage",
            "deleteSelect", "deleteMessages", "deleteAppointments", "deleteCallbacks",
            "deleteConversation"}

(***************************************************************************)
(* Sequential execution: a turn run to its end with no other turn in       *)
(* between and no failure.                                                 *)
(***************************************************************************)
RECURSIVE RunTurn(_, _, _)
\* the turn goes on after a statement with result r
Resume(v, r) == RunTurn(v, r.db, r.t)

RunTurn(v, db, t) ==
    IF t.pc \in Terminal THEN db
    ELSE IF t.pc = "engine"
    THEN Resume(v, ExecEngine(v, db, t,
                              getJerryResponse(v, t.phone, t.message, EngineInput(v, t))))
    ELSE Resume(v, Exec(v, db, t))

\* the store after the inbound messages of script were processed in order,
\* as requests 1 .. Len(script)
RECURSIVE RunScript(_, _, _)
RunScript(v, phone, script) ==
    IF script = <<>> THEN EmptyDb
    ELSE RunTurn(v, RunScript(v, phone, SubSeq(script, 1, Len(script) - 1)),
                 Begin(v, Len(script), "webhook", phone, script[Len(script)]))

(***************************************************************************)
(* Scenarios: what has already been exchanged with the customer, one       *)
(* message at a time, when the behaviour starts, and which messages the    *)
(* provider may deliver from then on: the last processed one again (a      *)
(* provider retry), the customer's next one, and STOP.                     *)
(***************************************************************************)
Phone == "+14035550100"

\* the end-to-end scenario of the specification
JaneDoe == <<"I want an SUV", "40k", "1", "Jane Doe", "tomorrow morning">>
\* a test drive booked with the keywords of src/index.js
TestDrive == <<"truck", "25000", "test drive", "next week">>
\* a callback, with the name given in a sentence
Callback == <<"sedan", "60k", "phone", "my name is john smith", "friday 2pm">>

Scenario(v, d, k) ==
    [variant |-> v,
     script |-> SubSeq(d, 1, k),
     inbound |-> {d[j] : j \in {k, k + 1} \cap DOMAIN d} \cup {"STOP"}]

Scenarios ==
    {Scenario(v, JaneDoe, k) : v \in {"index", "part1"}, k \in 0..5}
    \cup {Scenario("index", TestDrive, k) : k \in 2..4}
    \cup {Scenario(v, Callback, k) : v \in {"index", "part1"}, k \in 2..5}

\* an appointment booked with src/unnamed/part_002, which asks for the name
\* before the choice
Part2Dialogue == <<"truck", "40k", "Jane Doe", "1", "tomorrow at 2pm">>

\* a callback requested with src/unnamed/part_002
Part2Callback == <<"suv", "25k", "John", "2", "friday morning">>

Part2Scenarios ==
    {Scenario("part2", Part2Dialogue, k) : k \in 0..5}
    \cup {Scenario("part2", Part2Callback, k) : k \in 3..5}

\* a customer who opted out after the first answer
OptedOut == <<"I want an SUV", "STOP">>

OptedOutScenarios == {Scenario(v, OptedOut, 2) : v \in {"index", "part1"}}

ManualMessage == "Hi, this is Sam from the dealership."

(***************************************************************************)
(* State.                                                                  *)
(***************************************************************************)
VARIABLES
    variant,    \* which server file runs: "index" or "part1"
    inbound,    \* the messages the provider may deliver in this behaviour
    db,         \* the conversation store
    turns,      \* the handler executions of this behaviour, in order of arrival
    outbox,     \* what was handed to the SMS provider and the mail relay
    events,     \* how many requests have arrived and statements have failed
    history     \* the inbound messages processed so far one at a time, and
                \* whether everything so far ran one turn at a time, unfailed

vars == <<variant, inbound, db, turns, outbox, events, history>>

Init ==
    \E sc \in Scenarios :
        /\ variant = sc.variant
        /\ inbound = sc.inbound
        /\ db = RunScript(sc.variant, Phone, sc.script)
        /\ turns = <<>>
        /\ outbox = {}
        /\ events = 0
        /\ history = [msgs |-> sc.script, serial |-> TRUE, script |-> Len(sc.script)]

InFlight == {i \in DOMAIN turns : turns[i].pc \notin Terminal}

\* what a step of turn i that leaves it as t does to the history
Recorded(t) ==
    IF t.pc = "failed" THEN [history EXCEPT !.serial = FALSE]
    ELSE IF t.pc = "done" /\ t.kind = "webhook" /\ history.serial
         THEN [history EXCEPT !.msgs = Append(@, t.message)]
    ELSE history

\* a request arrives and its handler runs up to its first awaited statement
Arrive(kind, phone, message) ==
    \E t \in {Begin(variant, history.script + Len(turns) + 1, kind, phone, message)} :
        /\ turns' = Append(turns, t)
        /\ events' = events + 1
        /\ history' = [history EXCEPT !.serial = @ /\ kind = "webhook" /\ InFlight = {}]
        /\ UNCHANGED <<variant, inbound, db, outbox>>

\* POST /api/sms-webhook
ReceiveSms ==
    \E m \in inbound :
        /\ events < MaxEvents
        /\ Arrive("webhook", Phone, m)

\* POST /api/start-sms, without a message: the default campaign text
StartSms ==
    /\ events < MaxEvents
    /\ Arrive("start", Phone, NULL)

\* POST /api/manual-reply
ManualReply ==
    /\ events < MaxEvents
    /\ Arrive("manual", Phone, ManualMessage)

\* turn i performs the statement it is at, with result r
Commit(i, r) ==
    /\ db' = r.db
    /\ turns' = [turns EXCEPT ![i] = r.t]
    /\ outbox' = outbox \cup r.out
    /\ history' = Recorded(r.t)
    /\ UNCHANGED <<variant, inbound>>

\* the statement turn i awaits, which is not one of the engine's, completes
Step(i) ==
    \E r \in {Exec(variant, db, turns[i])} :
        /\ Commit(i, r)
        /\ UNCHANGED events

HasActiveConversation ==
    \E i \in DOMAIN turns : turns[i].pc = "hasActiveConversation" /\ Step(i)

GetOrCreateCustomerSelect ==
    \E i \in DOMAIN turns : turns[i].pc = "selectCustomer" /\ Step(i)

GetOrCreateCustomerInsert ==
    \E i \in DOMAIN turns : turns[i].pc = "insertCustomer" /\ Step(i)

GetOrCreateConversationSelect ==
    \E i \in DOMAIN turns : turns[i].pc = "selectConversation" /\ Step(i)

GetOrCreateConversationContinue ==
    \E i \in DOMAIN turns : turns[i].pc = "continueConversation" /\ Step(i)

GetOrCreateConversationInsert ==
    \E i \in DOMAIN turns : turns[i].pc = "insertConversation" /\ Step(i)

SaveUserMessage ==
    \E i \in DOMAIN turns : turns[i].pc = "saveUserMessage" /\ Step(i)

TouchConversation ==
    \E i \in DOMAIN turns : turns[i].pc = "touchConversation" /\ Step(i)

LogAnalytics ==
    \E i \in DOMAIN turns : turns[i].pc = "logAnalytics" /\ Step(i)

RereadConversation ==
    \E i \in DOMAIN turns : turns[i].pc = "reread" /\ Step(i)

SaveAssistantMessage ==
    \E i \in DOMAIN turns : turns[i].pc = "saveAssistantMessage" /\ Step(i)

SendSms ==
    \E i \in DOMAIN turns : turns[i].pc = "sendSms" /\ Step(i)

EmailNotify ==
    \E i \in DOMAIN turns : turns[i].pc = "emailNotify" /\ Step(i)

\* src/unnamed/part_002: updateConversation(conversation.id, {lastmessage:
\* aiResponse}) once the SMS is sent
StoreLastMessage ==
    \E i \in DOMAIN turns : turns[i].pc = "storeLastMessage" /\ Step(i)

\* what getJerryResponse does on the arguments turn t called it with
PlanOf(t) == getJerryResponse(variant, t.phone, t.message, EngineInput(variant, t))

\* getJerryResponse: the statement it awaits completes, or it returns
EngineStatement ==
    \E i \in DOMAIN turns :
        /\ turns[i].pc = "engine"
        /\ \E plan \in {PlanOf(turns[i])} :
            \E r \in {ExecEngine(variant, db, turns[i], plan)} : Commit(i, r)
        /\ UNCHANGED events

\* the store, the SMS provider or the mail relay fails the statement
StatementFails ==
    \E i \in DOMAIN turns :
        /\ events < MaxEvents
        /\ turns[i].pc \in CanFail
        /\ events' = events + 1
        /\ \E r \in {ExecFail(variant, db, turns[i])} : Commit(i, r)

\* the store or the mail relay fails the statement getJerryResponse awaits
EngineStatementFails ==
    \E i \in DOMAIN turns :
        /\ events < MaxEvents
        /\ turns[i].pc = "engine"
        /\ events' = events + 1
        /\ \E plan \in {PlanOf(turns[i])} :
            /\ plan.ops # <<>>
            /\ \E r \in {ExecEngineFail(variant, db, turns[i], plan)} : Commit(i, r)

Next ==
    \/ ReceiveSms \/ StartSms \/ ManualReply
    \/ HasActiveConversation
    \/ GetOrCreateCustomerSelect \/ GetOrCreateCustomerInsert
    \/ GetOrCreateConversationSelect \/ GetOrCreateConversationContinue
    \/ GetOrCreateConversationInsert
    \/ SaveUserMessage \/ TouchConversation \/ LogAnalytics \/ RereadConversation
    \/ EngineStatement \/ SaveAssistantMessage \/ SendSms \/ EmailNotify
    \/ StatementFails \/ EngineStatementFails

Spec == Init /\ [][Next]_vars

(***************************************************************************)
(* Properties.                                                             *)
(***************************************************************************)
Webhooks == {i \in DOMAIN turns : turns[i].kind = "webhook"}

\* turn i has called getJerryResponse
Called(i) == turns[i].pc = "engine" \/ turns[i].next_op > 1

\* the statements of getJerryResponse that are over in turn i
OpsDone(i) ==
    IF Called(i)
    THEN {PlanOf(turns[i]).ops[k] : k \in {j \in DOMAIN PlanOf(turns[i]).ops : j < turns[i].next_op}}
    ELSE {}

\* the conversation updates turn i has made inside getJerryResponse
Updates(i) == {o.updates : o \in {x \in OpsDone(i) : x.op = "updateConversation"}}

\* the stage turn i's call of getJerryResponse found in its conversation row
StageRead(i) == EngineInput(variant, turns[i]).stage

\* turn i has written the conversation's stage
WroteStage(i) == \E u \in Updates(i) : "stage" \in DOMAIN u

\* turn i has inserted an appointment or a callback
Finalized(i) == \E o \in OpsDone(i) : o.op \in {"saveAppointment", "saveCallback"}

\* the appointment and callback rows of a phone
Finalizations(phone) ==
    Cardinality({r \in db.appointments : r.customer_phone = phone})
    + Cardinality({r \in db.callbacks : r.customer_phone = phone})

Confirmed(phone) ==
    {c \in db.conversations : c.customer_phone = phone /\ c.stage = "confirmed"}

Phones == {c.phone : c \in db.customers}

\* C1: at every state the store holds at most one conversation with a given
\* customer_phone and status 'active'
C1_OneActiveConversation ==
    \A p \in Phones : Cardinality(ActiveConversations(db, p)) <= 1

\* C2: once no turn is running, a phone has exactly one appointment or callback
\* row for each of its conversations that reached stage confirmed: never zero,
\* also when the insert failed after the conversation row was updated, and
\* never two
C2_OneRowPerConfirmed ==
    InFlight = {} =>
        \A p \in Phones : Finalizations(p) = Cardinality(Confirmed(p))

\* C3: when the same message was delivered twice and both turns are over, the
\* two turns have not both inserted an appointment or callback row, and they
\* have not moved the conversation to two different stages
C3_RedeliveryHarmless ==
    \A i, j \in Webhooks :
        /\ i < j
        /\ turns[i].message = turns[j].message
        /\ turns[i].pc = "done" /\ turns[j].pc = "done"
        =>  /\ ~(Finalized(i) /\ Finalized(j))
            /\ \A u \in Updates(i), w \in Updates(j) :
                "stage" \in DOMAIN u /\ "stage" \in DOMAIN w => u.stage = w.stage

(***************************************************************************)
(* Serial replay: on a fresh store, or on one that earlier requests left,  *)
(* the provider delivers one payload, and delivers it again only when the  *)
(* turn before is over.  Nothing fails.                                    *)
(***************************************************************************)
Payloads ==
    {"I want an SUV", "40k", "1", "2", "Jane Doe", "tomorrow morning", "truck", "25000",
     "test drive", "next week", "sedan", "phone", "my name is john smith", "friday 2pm",
     "STOP", "START", "call me", "where are you located", "can I see photos",
     "reschedule", "cancel", "", "hello", "$1,500 down", "asap", "i'm not sure",
     "call me at 1pm", "25k, cash", "something cheap", "no budget yet",
     "tomorrow at 9am"}

SerialInit ==
    \E sc \in Scenarios \cup Part2Scenarios \cup OptedOutScenarios, m \in Payloads :
        /\ variant = sc.variant
        /\ inbound = {m}
        /\ db = RunScript(sc.variant, Phone, sc.script)
        /\ turns = <<>>
        /\ outbox = {}
        /\ events = 0
        /\ history = [msgs |-> sc.script, serial |-> TRUE, script |-> Len(sc.script)]

ReceiveNext == InFlight = {} /\ ReceiveSms

SerialNext ==
    \/ ReceiveNext
    \/ GetOrCreateCustomerSelect \/ GetOrCreateCustomerInsert
    \/ GetOrCreateConversationSelect \/ GetOrCreateConversationContinue
    \/ GetOrCreateConversationInsert
    \/ SaveUserMessage \/ TouchConversation \/ LogAnalytics \/ RereadConversation
    \/ EngineStatement \/ SaveAssistantMessage \/ SendSms \/ EmailNotify
    \/ StoreLastMessage

SerialSpec == SerialInit /\ [][SerialNext]_vars

\* the appointment and callback rows in the store once the first n deliveries
\* of the payload were processed
RowsUpTo(n) ==
    Cardinality({r \in db.appointments : r.turn <= history.script + n})
    + Cardinality({r \in db.callbacks : r.turn <= history.script + n})

\* C4: from a fresh conversation, with turns run one at a time, processing a
\* payload twice leaves as many appointment and callback rows as processing it
\* once.  The premise of a fresh conversation is needed: a conversation that
\* src/unnamed/part_001 left at stage name takes "2" first as the name and
\* then as the date, and the second delivery inserts a callback row.
C4_ReplayIdempotent ==
    history.script = 0 /\ Len(turns) = 2 /\ InFlight = {} => RowsUpTo(2) = RowsUpTo(1)

C4_Replayed ==
    /\ Len(turns) = 2 /\ InFlight = {}
    /\ history.script = 0
    /\ turns[1].message = "tomorrow morning" /\ turns[2].message = "tomorrow morning"
    /\ turns[1].conversation.id = turns[2].conversation.id
    /\ Cardinality(db.messages) = 4

\* C5: two webhook turns, each of which changed the stage of the conversation,
\* did not both start from the same stage of the same conversation
C5_NoSharedRead ==
    \A i, j \in Webhooks :
        /\ i < j
        /\ Called(i) /\ Called(j)
        /\ turns[i].conversation.id = turns[j].conversation.id
        /\ StageRead(i) = StageRead(j)
        =>  ~ /\ \E u \in Updates(i) : "stage" \in DOMAIN u /\ u.stage # StageRead(i)
              /\ \E w \in Updates(j) : "stage" \in DOMAIN w /\ w.stage # StageRead(j)

StageOrder == <<"greeting", "budget", "appointment", "name", "datetime", "confirmed">>

\* position of a stage in StageOrder, 0 for a value that is not in it
Rank(stage) ==
    IF \E k \in DOMAIN StageOrder : StageOrder[k] = stage
    THEN CHOOSE k \in DOMAIN StageOrder : StageOrder[k] = stage
    ELSE 0

\* the manager-shortcut interrupt of the two files
ManagerShortcut(message) ==
    \/ IndexManager(toLowerCase(message))
    \/ includes(toLowerCase(message), "detail")
    \/ includes(toLowerCase(message), "more info")
    \/ includes(toLowerCase(message), "tell me more")

\* C6: every change of a conversation's stage, other than one out of confirmed
\* or one made for a manager-shortcut message, moves it to the next stage of
\* greeting, budget, appointment, name, datetime, confirmed
C6_StageMonotone ==
    [][\A i \in DOMAIN turns :
          turns'[i] # turns[i] /\ ~ManagerShortcut(turns[i].message) =>
              \A c \in db.conversations, d \in db'.conversations :
                  d.id = c.id /\ d.stage # c.stage /\ c.stage # "confirmed"
                  => Rank(d.stage) = Rank(c.stage) + 1]_vars

\* what the end-to-end scenario expects of the conversation after k messages
JaneDoeExpected(c, k) ==
    /\ c.vehicle_type = "SUV"
    /\ k = 1 => c.stage = "budget"
    /\ k >= 2 => c.budget_amount = Some(40000) /\ c.budget = "$30k-$50k"
    /\ k = 2 => c.stage = "appointment"
    /\ k >= 3 => c.intent = "test_drive"
    /\ k = 3 => c.stage = "name"
    /\ k >= 4 => c.customer_name = "Jane doe"
    /\ k = 4 => c.stage = "datetime"
    /\ k = 5 => /\ c.status = "converted" /\ c.stage = "confirmed"
                /\ \E r \in db.appointments :
                    /\ db.appointments = {r}
                    /\ r.vehicle_type = "SUV" /\ r.budget = "$30k-$50k"
                    /\ r.budget_amount = Some(40000)
                    /\ r.customer_name = "Jane doe"
                    /\ r.datetime = "Tomorrow morning"

\* C7: after the first k messages of "I want an SUV", "40k", "1", "Jane Doe",
\* "tomorrow morning" were processed one at a time on a fresh phone, the
\* conversation is as the scenario says, and after the fifth there is exactly
\* one appointment row with datetime "Tomorrow morning"
C7_EndToEnd ==
    /\ history.serial /\ InFlight = {}
    /\ history.msgs # <<>>
    /\ history.msgs = SubSeq(JaneDoe, 1, Len(history.msgs))
    => \E c \in db.conversations :
        /\ db.conversations = {c}
        /\ JaneDoeExpected(c, Len(history.msgs))

UnsubscribeReplies ==
    {"You've been unsubscribed. Reply START if you ever want to chat again.",
     "You've been unsubscribed. Reply START to resume."}

C10_OneAck ==
    \A i \in Webhooks : turns[i].responses = <<"twiml">>

C10_AckedAndFailed ==
    \E i \in Webhooks : turns[i].pc = "failed" /\ turns[i].responses = <<"twiml">>

\* the steps of a background turn that the order is about
TurnOrder ==
    <<"selectCustomer", "selectConversation", "saveUserMessage", "touchConversation",
      "reread", "getJerryResponse", "saveAssistantMessage", "sendSms">>

InTurnOrder(label) == \E k \in DOMAIN TurnOrder : TurnOrder[k] = label

\* C11: a background turn that ran to its end did, after the acknowledgment
\* and in this order: get-or-create customer, get-or-create conversation,
\* persist the inbound message, touch updated_at, re-read the conversation
\* row, call getJerryResponse, persist the reply, send the SMS
C11_TurnOrder ==
    \A i \in Webhooks :
        turns[i].pc = "done" =>
            /\ turns[i].trace[1] = "ack"
            /\ SelectSeq(turns[i].trace, InTurnOrder) = TurnOrder

\* the statement turn t awaits is a call of the store
StoreCall(t) ==
    \/ t.pc \in CanFail \ {"sendSms", "emailNotify"}
    \/ /\ t.pc = "engine"
       /\ PlanOf(t).ops # <<>>
       /\ PlanOf(t).ops[t.next_op].op # "sendEmail"

\* this step is the failure of the statement turn i awaits
FailsIn(i) ==
    /\ events' = events + 1
    /\ Len(turns') = Len(turns)
    /\ turns'[i] # turns[i]

\* C12: a store call that fails in a background turn ends the turn: the turn
\* is failed, and a failed turn takes no further step, sends nothing and is
\* not run again
C12_StoreFailureTerminal ==
    [][\A i \in Webhooks :
        /\ FailsIn(i) /\ StoreCall(turns[i]) => turns'[i].pc = "failed"
        /\ turns[i].pc = "failed" =>
            /\ turns'[i] = turns[i]
            /\ \A m \in outbox' \ outbox : m.turn # turns[i].id]_vars

\* C13: when the SMS send of a background turn fails, the store stays as the
\* turn left it (the reply it saved is still there, nothing is undone),
\* nothing is sent, and the provider has its empty acknowledgment and no
\* other answer
C13_SmsFailureKeepsState ==
    [][\A i \in Webhooks :
        FailsIn(i) /\ turns[i].pc = "sendSms" =>
            /\ db' = db
            /\ \E m \in db'.messages :
                /\ m.turn = turns[i].id /\ m.role = "assistant"
                /\ m.content = turns[i].aiResponse
            /\ outbox' = outbox
            /\ turns'[i].pc = "failed"
            /\ turns'[i].responses = <<"twiml">>]_vars

C13_SmsFailedAfterTransition ==
    \E i \in Webhooks :
        /\ turns[i].pc = "failed"
        /\ turns[i].trace[Len(turns[i].trace)] = "sendSms"
        /\ WroteStage(i)
        /\ \E c \in db.conversations, u \in Updates(i) :
            c.id = turns[i].conversation.id /\ "stage" \in DOMAIN u /\ c.stage = u.stage
        /\ \E m \in db.messages : m.turn = turns[i].id /\ m.role = "assistant"

\* the message holds none of the keywords of the global interrupts (opt-out,
\* resume, location, manager) and none of those of the greeting stage (the
\* vehicle categories and the words of interest)
NoRuleAtGreeting(message) ==
    LET lowerMsg == toLowerCase(message)
    IN  /\ ~includes(lowerMsg, "stop") /\ ~includes(lowerMsg, "start")
        /\ ~IndexLocation(lowerMsg) /\ ~IndexManager(lowerMsg)
        /\ ~includes(lowerMsg, "detail") /\ ~includes(lowerMsg, "tell me more")
        /\ ~IndexInventory(lowerMsg)
        /\ \A w \in {"suv", "truck", "sedan", "car", "vehicle", "yes", "interested",
                     "want", "looking"} : ~includes(lowerMsg, w)

\* C14: a turn that found its conversation at stage greeting, with a message
\* that matches no global interrupt and no rule of that stage, only
\* re-prompts: it updates no field of the conversation and inserts no
\* appointment or callback row
C14_FallbackPersistsNothing ==
    \A i \in Webhooks :
        /\ turns[i].pc = "done"
        /\ StageRead(i) = "greeting"
        /\ NoRuleAtGreeting(turns[i].message)
        => Updates(i) = {} /\ ~Finalized(i)

\* the appointment / callback inserts turn i has made
Inserted(i, op) == \E o \in OpsDone(i) : o.op = op

\* C15: a turn that finalized wrote one of the two tables, the one its
\* conversation's intent selects: appointments if and only if the intent is
\* test_drive (written 'testdrive' by src/index.js), callbacks if and only if
\* it is callback; never both, and nothing when the intent is unset
C15_TableByIntent ==
    \A i \in Webhooks :
        Finalized(i) =>
            /\ Inserted(i, "saveAppointment")
                <=> EngineInput(variant, turns[i]).intent \in {"test_drive", "testdrive"}
            /\ Inserted(i, "saveCallback")
                <=> EngineInput(variant, turns[i]).intent = "callback"
            /\ ~(Inserted(i, "saveAppointment") /\ Inserted(i, "saveCallback"))

\* the columns of a conversation that hold its state: everything but the
\* keys and updated_at
StateOf(c) ==
    [stage |-> c.stage, status |-> c.status, vehicle_type |-> c.vehicle_type,
     budget |-> c.budget, budget_amount |-> c.budget_amount, intent |-> c.intent,
     customer_name |-> c.customer_name, datetime |-> c.datetime]

\* the message asks for one of the transitions out of a closed conversation:
\* resume, reschedule, cancel
ReopensConversation(message) ==
    LET lowerMsg == toLowerCase(message)
    IN  \/ includes(lowerMsg, "start") \/ includes(lowerMsg, "reschedule")
        \/ includes(lowerMsg, "change") \/ includes(lowerMsg, "different time")
        \/ includes(lowerMsg, "cancel")

\* C16: a conversation whose status is converted, stopped or cancelled keeps
\* its stage, status and captured fields in every step of a webhook turn whose
\* message is not a resume, reschedule or cancel request, also when the turn
\* loaded the conversation while it was active
C16_ClosedImmutable ==
    [][\A i \in Webhooks :
        turns'[i] # turns[i] /\ ~ReopensConversation(turns[i].message) =>
            \A c \in db.conversations, d \in db'.conversations :
                c.id = d.id /\ c.status \in {"converted", "stopped", "cancelled"}
                => StateOf(d) = StateOf(c)]_vars

(***************************************************************************)
(* Campaign starts: the operator enters the customer's number in one of    *)
(* several renderings while the provider delivers the customer's messages  *)
(* under the E.164 rendering.  Nothing fails.                              *)
(***************************************************************************)
\* formatPhone: the digits of the number, shown as +1 (AAA) BBB-CCCC when
\* they are ten, or eleven with a leading 1
formatPhone(phone) ==
    LET cleaned == keepDigits(phone)
        national == IF Len(cleaned) = 11 THEN SubSeq(cleaned, 2, 11) ELSE cleaned
    IN  IF phone = "" THEN ""
        ELSE IF (Len(cleaned) = 11 /\ Char(cleaned, 1) = "1") \/ Len(cleaned) = 10
        THEN "+1 (" \o SubSeq(national, 1, 3) \o ") " \o SubSeq(national, 4, 6)
             \o "-" \o SubSeq(national, 7, 10)
        ELSE phone

\* renderings of the number of Phone
Renderings == {"+14035550100", "4035550100", "(403) 555-0100"}

\* POST /api/start-sms with the number as the operator typed it
StartSmsAs ==
    \E p \in Renderings :
        /\ events < MaxEvents
        /\ Arrive("start", p, NULL)

CampaignNext ==
    \/ StartSmsAs \/ ReceiveSms
    \/ HasActiveConversation
    \/ GetOrCreateCustomerSelect \/ GetOrCreateCustomerInsert
    \/ GetOrCreateConversationSelect \/ GetOrCreateConversationContinue
    \/ GetOrCreateConversationInsert
    \/ SaveUserMessage \/ TouchConversation \/ LogAnalytics \/ RereadConversation
    \/ EngineStatement \/ SaveAssistantMessage \/ SendSms \/ EmailNotify

CampaignSpec == Init /\ [][CampaignNext]_vars

\* C17: renderings of one number are one key: two customers whose phones
\* denote the same number are the same customer, and the active conversations
\* of one number are all filed under the same phone
C17_OneKeyPerNumber ==
    /\ \A c, d \in db.customers :
        formatPhone(c.phone) = formatPhone(d.phone) => c.phone = d.phone
    /\ \A c, d \in db.conversations :
        /\ c.status = "active" /\ d.status = "active"
        /\ formatPhone(c.customer_phone) = formatPhone(d.customer_phone)
        => c.customer_phone = d.customer_phone

Manuals == {i \in DOMAIN turns : turns[i].kind = "manual"}

\* the messages request number id has stored
MessagesOf(store, id) == {m \in store.messages : m.turn = id}

\* C18: a manual reply never enters getJerryResponse; none of its steps
\* changes the stage, the status or a captured field of a conversation, or
\* the appointments and callbacks; when it is over it has stored one message,
\* the operator's text as an assistant message of the conversation it got,
\* and that conversation's updated_at has moved
C18_ManualReplyFrame ==
    [][\A i \in Manuals :
        turns'[i] # turns[i] =>
            /\ turns'[i].pc # "engine"
            /\ \A c \in db.conversations :
                \E d \in db'.conversations : d.id = c.id /\ StateOf(d) = StateOf(c)
            /\ db'.appointments = db.appointments
            /\ db'.callbacks = db.callbacks
            /\ turns'[i].pc = "done" =>
                /\ MessagesOf(db', turns[i].id) =
                     {[turn |-> turns[i].id, conversation_id |-> turns'[i].conversation.id,
                       customer_phone |-> turns[i].phone, role |-> "assistant",
                       content |-> turns[i].message]}
                /\ \E d \in db'.conversations :
                    /\ d.id = turns'[i].conversation.id
                    /\ d.updated_at > turns'[i].conversation.updated_at]_vars

C18_ManualReplySent ==
    \E i \in Manuals :
        /\ turns[i].pc = "done"
        /\ turns[i].responses = <<"success">>
        /\ \E c \in db.conversations :
            /\ c.id = turns[i].conversation.id /\ c.stage = "datetime"
            /\ \E m \in MessagesOf(db, turns[i].id) : m.conversation_id = c.id

(***************************************************************************)
(* Administration: the operator deletes the conversation of a phone while  *)
(* the provider may deliver a message of the customer.  Nothing fails.     *)
(***************************************************************************)
\* DELETE /api/conversation/:phone
DeleteRequest ==
    /\ events < MaxEvents
    /\ Arrive("delete", Phone, NULL)

\* SELECT id FROM conversations WHERE customer_phone = $1 ORDER BY started_at
\* DESC LIMIT 1
DeleteSelect ==
    \E i \in DOMAIN turns : turns[i].pc = "deleteSelect" /\ Step(i)

\* DELETE FROM messages WHERE conversation_id = $1
DeleteMessages ==
    \E i \in DOMAIN turns : turns[i].pc = "deleteMessages" /\ Step(i)

\* DELETE FROM appointments WHERE customer_phone = $1
DeleteAppointments ==
    \E i \in DOMAIN turns : turns[i].pc = "deleteAppointments" /\ Step(i)

\* DELETE FROM callbacks WHERE customer_phone = $1
DeleteCallbacks ==
    \E i \in DOMAIN turns : turns[i].pc = "deleteCallbacks" /\ Step(i)

\* DELETE FROM conversations WHERE id = $1
DeleteConversationRow ==
    \E i \in DOMAIN turns : turns[i].pc = "deleteConversation" /\ Step(i)

AdminNext ==
    \/ DeleteRequest \/ ReceiveSms
    \/ DeleteSelect \/ DeleteMessages \/ DeleteAppointments \/ DeleteCallbacks
    \/ DeleteConversationRow
    \/ GetOrCreateCustomerSelect \/ GetOrCreateCustomerInsert
    \/ GetOrCreateConversationSelect \/ GetOrCreateConversationContinue
    \/ GetOrCreateConversationInsert
    \/ SaveUserMessage \/ TouchConversation \/ LogAnalytics \/ RereadConversation
    \/ EngineStatement \/ SaveAssistantMessage \/ SendSms \/ EmailNotify

AdminSpec == Init /\ [][AdminNext]_vars

Deletes == {i \in DOMAIN turns : turns[i].kind = "delete"}

\* C19: once a delete has answered with success and nothing is running, every
\* message belongs to a conversation that exists, and the phone has one
\* appointment or callback row for each confirmed conversation it still has:
\* the rows of the deleted conversation are gone with it and the rows of the
\* conversations that remain are still there
C19_DeleteIsWhole ==
    /\ InFlight = {}
    /\ \E i \in Deletes : turns[i].responses = <<"success">>
    => /\ \A m \in db.messages : HasConversation(db, m.conversation_id)
       /\ Finalizations(Phone) = Cardinality(Confirmed(Phone))

\* C20: no two turns have inserted an appointment or callback row for the
\* same conversation
C20_FinalizedOnce ==
    \A i, j \in Webhooks :
        i # j /\ Finalized(i) /\ Finalized(j)
        => turns[i].conversation.id # turns[j].conversation.id

\* conversation c was finalized by the stored dialogue: a request served
\* before the first webhook of the behaviour saved its messages under c and
\* inserted an appointment or a callback
FinalizedBefore(c) ==
    \E r \in db.appointments \cup db.callbacks, m \in db.messages :
        r.turn <= history.script /\ m.turn = r.turn /\ m.conversation_id = c.id

\* the message asks to move the appointment (src/index.js:516)
AsksReschedule(message) ==
    \/ includes(toLowerCase(message), "reschedule")
    \/ includes(toLowerCase(message), "change")

\* C21: a message containing "reschedule" or "change" that arrives after a
\* conversation was finalized is handled by that conversation, whose stage
\* becomes datetime while its status stays converted
C21_RescheduleSameConversation ==
    \A c \in db.conversations :
        /\ FinalizedBefore(c)
        /\ Len(turns) = 1
        /\ turns[1].pc = "done"
        /\ AsksReschedule(turns[1].message)
        => /\ turns[1].conversation.id = c.id
           /\ c.stage = "datetime"
           /\ c.status = "converted"

\* C22: a message containing "cancel" that arrives after a conversation was
\* finalized sets that conversation's status to cancelled, and a conversation
\* is cancelled only by a turn whose message contains "cancel"
C22_CancelAfterFinalization ==
    /\ \A c \in db.conversations :
          /\ FinalizedBefore(c)
          /\ Len(turns) = 1
          /\ turns[1].pc = "done"
          /\ includes(toLowerCase(turns[1].message), "cancel")
          => c.status = "cancelled"
    /\ \A c \in db.conversations :
          c.status = "cancelled" =>
              \E i \in Webhooks : /\ turns[i].conversation.id = c.id
                                  /\ includes(toLowerCase(turns[i].message), "cancel")

\* the reply of the resume branch (src/index.js:322)
WelcomeBack == "Welcome back! What type of vehicle are you most interested in? (SUV, Truck, Sedan, etc.)"

\* conversation c was stopped by the last message of the stored dialogue
StoppedBefore(c) ==
    /\ history.script > 0
    /\ toLowerCase(history.msgs[history.script]) = "stop"
    /\ \E m \in db.messages : m.turn = history.script /\ m.conversation_id = c.id

\* C23: START sent after an opt-out stopped a conversation is handled by that
\* conversation: its status is active again and the reply is the prompt of
\* the resume branch
C23_StartResumes ==
    \A c \in db.conversations :
        /\ StoppedBefore(c)
        /\ Len(turns) = 1
        /\ turns[1].pc = "done"
        /\ turns[1].message = "START"
        => /\ turns[1].conversation.id = c.id
           /\ c.status = "active"
           /\ turns[1].aiResponse = WelcomeBack

\* the state of a row as the INSERT of getOrCreateConversation leaves it
FreshState ==
    [stage |-> "greeting", status |-> "active", vehicle_type |-> NULL, budget |-> NULL,
     budget_amount |-> None, intent |-> NULL, customer_name |-> NULL, datetime |-> NULL]

\* turn i has completed the statement at pc without a throw
Completes(i, pc) ==
    turns[i].pc = pc /\ turns'[i].pc \notin {pc, "failed"}

ManagerReplies ==
    {"No problem! What's the best time for a quick call? (e.g. Tomorrow at 2pm, Friday morning, This evening)",
     "I'd be happy to have one of our managers reach out to you with all the details! What's the best time to call you? (e.g., Tomorrow at 2pm, This afternoon, Friday morning)"}

\* C25: a turn that took the manager shortcut leaves its conversation with
\* intent callback and at the name or the datetime stage
C25_ManagerShortcutMoves ==
    \A c \in db.conversations :
        /\ Len(turns) = 1
        /\ turns[1].pc = "done"
        /\ turns[1].aiResponse \in ManagerReplies
        /\ c.id = turns[1].conversation.id
        => c.intent = "callback" /\ c.stage \in {"name", "datetime"}

\* C26: a turn of src/index.js that found its conversation at the
\* intent-choice stage and whose message contains "call" or "phone" leaves the
\* conversation with intent callback and at a later stage
C26_CallAdvances ==
    \A c \in db.conversations :
        /\ variant = "index"
        /\ Len(turns) = 1
        /\ turns[1].pc = "done"
        /\ c.id = turns[1].conversation.id
        /\ StageRead(1) \in {"intent", "appointment"}
        /\ \/ includes(toLowerCase(turns[1].message), "call")
           \/ includes(toLowerCase(turns[1].message), "phone")
        => c.intent = "callback" /\ c.stage \notin {"greeting", "budget", "intent", "appointment"}

\* the keywords of the two choices of the appointment stage
\* (src/unnamed/part_001:1485, 1494) that the menu names
ChoosesTestDrive(lowerMsg) ==
    includes(lowerMsg, "1") \/ includes(lowerMsg, "test") \/ includes(lowerMsg, "drive")

ChoosesCallback(lowerMsg) ==
    includes(lowerMsg, "2") \/ includes(lowerMsg, "call") \/ includes(lowerMsg, "phone")

\* C27: a turn of src/unnamed/part_001 that found its conversation at the
\* appointment stage with no intent leaves it with intent callback when the
\* message has a callback keyword and with intent test_drive when it has a
\* test-drive keyword
C27_ChoiceByKeyword ==
    \A c \in db.conversations :
        /\ variant = "part1"
        /\ Len(turns) = 1
        /\ turns[1].pc = "done"
        /\ c.id = turns[1].conversation.id
        /\ StageRead(1) = "appointment"
        /\ EngineInput(variant, turns[1]).intent = NULL
        => /\ ChoosesCallback(toLowerCase(turns[1].message)) => c.intent = "callback"
           /\ ChoosesTestDrive(toLowerCase(turns[1].message)) => c.intent = "test_drive"

\* C28: no state of the store holds a conversation with a customer_name that
\* the customer row of its phone does not carry
C28_NameWrittenTogether ==
    \A c \in db.conversations :
        c.customer_name # NULL =>
            \E k \in db.customers : k.phone = c.customer_phone /\ k.name = c.customer_name

\* C29: when the turn that finalized a conversation is over, the appointment
\* or callback row it inserted has the customer_name, vehicle_type, budget,
\* budget_amount and datetime of the conversation row in the store
C29_RowEqualsConversation ==
    \A c \in db.conversations, r \in db.appointments \cup db.callbacks :
        /\ variant \in {"index", "part1"}
        /\ Len(turns) = 1
        /\ turns[1].pc = "done"
        /\ Finalized(1)
        /\ c.id = turns[1].conversation.id
        /\ r.turn = turns[1].id
        => /\ r.customer_name = c.customer_name
           /\ r.vehicle_type = c.vehicle_type
           /\ r.budget = c.budget
           /\ r.budget_amount = c.budget_amount
           /\ r.datetime = c.datetime

\* the store statements a call of getJerryResponse made, by kind
EngineWrites(i) == {o \in OpsDone(i) : o.op # "logAnalytics"}

EngineEvents(i) ==
    Cardinality({k \in DOMAIN PlanOf(turns[i]).ops :
                    k < turns[i].next_op /\ PlanOf(turns[i]).ops[k].op = "logAnalytics"})

\* C30: a finished turn whose call of getJerryResponse wrote the conversation,
\* the customer, an appointment or a callback logged exactly one analytics
\* event from it, and a turn whose call wrote nothing logged none
C30_OneEventPerMutation ==
    \A i \in Webhooks :
        turns[i].pc = "done" =>
            EngineEvents(i) = IF EngineWrites(i) # {} THEN 1 ELSE 0

\* the message asks where the dealership is and is not an opt-out, which both
\* files test first
AsksLocation(message) ==
    /\ \E w \in {"location", "where", "address", "dealership", "calgary", "alberta"} :
          includes(toLowerCase(message), w)
    /\ ~includes(toLowerCase(message), "stop")
    /\ ~includes(toLowerCase(message), "start")

\* the informational reply (src/index.js:334, src/unnamed/part_001:1379)
LocationReply(v) ==
    IF v = "index"
    THEN "We are based in Calgary, Alberta and we can deliver vehicles all across Canada. If you'd like exact directions or store details, I can also have a manager call you."
    ELSE "We're located in Calgary, Alberta, and we deliver vehicles all across Canada! If you'd like specific dealership details or directions, I can have a manager call you back shortly. Just let me know!"

AwaitsEmail(i) ==
    /\ turns[i].pc = "engine"
    /\ turns[i].next_op \in DOMAIN PlanOf(turns[i]).ops
    /\ PlanOf(turns[i]).ops[turns[i].next_op].op = "sendEmail"

\* the email attempt of turn i failed and the turn went on
EmailFailed(i) ==
    \E k \in DOMAIN turns[i].trace :
        /\ turns[i].trace[k] = "failed"
        /\ LET n == Cardinality({j \in 1..(k - 1) : turns[i].trace[j] = "engine"}) + 1
           IN  n \in DOMAIN PlanOf(turns[i]).ops /\ PlanOf(turns[i]).ops[n].op = "sendEmail"

\* C32: a failure of the finalization email leaves the store as it is, with
\* the turn's appointment or callback row and its conversation update in it,
\* and does not end the turn; a turn that went on to its end after such a
\* failure was answered with the engine's confirmation reply by SMS
C32_EmailFailureAbsorbed ==
    /\ [][\A i \in Webhooks :
            AwaitsEmail(i) /\ FailsIn(i) =>
                /\ db' = db
                /\ turns'[i].pc # "failed"
                /\ \E r \in db.appointments \cup db.callbacks : r.turn = turns[i].id
                /\ \E u \in Updates(i) : "datetime" \in DOMAIN u]_vars
    /\ [](\A i \in Webhooks :
            EmailFailed(i) /\ turns[i].pc = "done" =>
                /\ turns[i].aiResponse = PlanOf(turns[i]).reply
                /\ \E m \in outbox : /\ m.turn = turns[i].id
                                     /\ m.channel = "sms"
                                     /\ m.body = PlanOf(turns[i]).reply)

\* a turn whose finalization email failed has sent its reply
C32_RepliedAfterEmailFailure ==
    \E i \in Webhooks :
        /\ EmailFailed(i)
        /\ turns[i].pc = "done"
        /\ \E r \in db.appointments \cup db.callbacks : r.turn = turns[i].id
        /\ \E m \in outbox : m.turn = turns[i].id /\ m.channel = "sms"

\* turn i captured a budget amount
CapturedAmount(i) == \E u \in Updates(i) : "budget_amount" \in DOMAIN u

\* C33: a turn that captured a budget amount from a message whose first run of
\* digits is n stored n * 1000 when the message holds a "k" and n is below
\* 1000, with or without a comma in the message, and n when n is 1000 or more
C33_BudgetAmount ==
    \A c \in db.conversations :
        /\ variant \in {"index", "part1"}
        /\ Len(turns) = 1
        /\ turns[1].pc = "done"
        /\ CapturedAmount(1)
        /\ c.id = turns[1].conversation.id
        => LET n == parseDigits(firstDigitRun(turns[1].message))
           IN  /\ includes(toLowerCase(turns[1].message), "k") /\ n < 1000
                    => c.budget_amount = Some(n * 1000)
               /\ n >= 1000 => c.budget_amount = Some(n)

\* the display bucket of a positive amount
Bucket(a) ==
    IF a < 30000 THEN "Under $30k" ELSE IF a <= 50000 THEN "$30k-$50k" ELSE "$50k+"

\* C34: every update of src/index.js or src/unnamed/part_001 that stores a
\* budget_amount a stores a positive one, together with the display budget of
\* a's bucket and the next stage
C34_BudgetBucket ==
    \A i \in Webhooks :
        \A u \in Updates(i) :
            /\ variant \in {"index", "part1"}
            /\ "budget_amount" \in DOMAIN u
            /\ u.budget_amount # None
            => /\ u.budget_amount[1] > 0
               /\ "budget" \in DOMAIN u
               /\ u.budget = Bucket(u.budget_amount[1])
               /\ "stage" \in DOMAIN u

\* C35: a turn that found its conversation at the budget stage and whose
\* message has no digit left the conversation with budget "Under $30k" at a
\* later stage when the message has "cheap" or "low", with budget "$50k+" at a
\* later stage when it has "high", "premium" or "luxury", and with the budget,
\* budget_amount and stage it was handed otherwise
C35_QualitativeBudget ==
    \A c \in db.conversations :
        /\ variant \in {"index", "part1"}
        /\ Len(turns) = 1
        /\ turns[1].pc = "done"
        /\ StageRead(1) = "budget"
        /\ c.id = turns[1].conversation.id
        /\ keepDigits(turns[1].message) = ""
        => LET low == toLowerCase(turns[1].message)
               before == EngineInput(variant, turns[1])
           IN  IF includes(low, "cheap") \/ includes(low, "low")
               THEN c.budget = "Under $30k" /\ c.stage # "budget"
               ELSE IF includes(low, "high") \/ includes(low, "premium") \/ includes(low, "luxury")
               THEN c.budget = "$50k+" /\ c.stage # "budget"
               ELSE /\ c.budget = before.budget
                    /\ c.budget_amount = before.budget_amount
                    /\ c.stage = "budget"

\* the vocabulary of the normalization as the claim gives it: a day with a
\* part of the day, the weekend, next week, and the text itself otherwise
ClaimedDatetime(message) ==
    LET lower == trim(toLowerCase(message))
        day == IF includes(lower, "today") THEN "Today"
               ELSE IF includes(lower, "tomorrow") THEN "Tomorrow" ELSE NULL
        part == IF includes(lower, "morning") THEN "morning"
                ELSE IF includes(lower, "afternoon") THEN "afternoon"
                ELSE IF includes(lower, "evening") \/ includes(lower, "tonight") THEN "evening"
                ELSE NULL
    IN  IF day # NULL /\ part # NULL THEN day \o " " \o part
        ELSE IF includes(lower, "weekend") THEN "This weekend"
        ELSE IF includes(lower, "next week") THEN "Next week"
        ELSE message

\* C36: the datetime a finalization of src/index.js stored is the claimed
\* normalization of the turn's message, and normalizing it again returns it
C36_VagueDatetime ==
    \A c \in db.conversations :
        /\ variant = "index"
        /\ Len(turns) = 1
        /\ turns[1].pc = "done"
        /\ Finalized(1)
        /\ c.id = turns[1].conversation.id
        => /\ c.datetime = ClaimedDatetime(turns[1].message)
           /\ normalizeVagueDatetime(c.datetime) = c.datetime

\* the /api/start-sms requests
Starts == {i \in DOMAIN turns : turns[i].kind = "start"}

\* request i wrote a row or sent a message
Wrote(i) ==
    \/ \E r \in db.messages \cup db.analytics \cup db.appointments \cup db.callbacks :
          r.turn = turns[i].id
    \/ \E m \in outbox : m.turn = turns[i].id
    \/ \E k \in DOMAIN turns[i].trace :
          turns[i].trace[k] \in {"insertCustomer", "insertConversation", "continueConversation"}

\* C37: a campaign start that was rejected wrote nothing and sent nothing, and
\* the conversation a campaign start was handed is never active together with
\* another conversation of the phone
C37_StartCreatesOne ==
    \A i \in Starts :
        /\ (\E k \in DOMAIN turns[i].responses : turns[i].responses[k] = "rejected")
              => ~Wrote(i)
        /\ \A c, d \in db.conversations :
              /\ c.id = turns[i].conversation.id
              /\ d.id # c.id
              /\ d.customer_phone = c.customer_phone
              => ~(c.status = "active" /\ d.status = "active")

\* a customer about to give the date of a test drive sends an opt-out, a
\* resume and the date.  The provider delivers each of them once, in any
\* order, each as soon as the turns before it have loaded the conversation
\* and logged the message: the turns then run against each other from their
\* re-read of the conversation on.
ResumeInit ==
    /\ variant = "index"
    /\ inbound = {"STOP", "START", "next week"}
    /\ db = RunScript("index", Phone, SubSeq(TestDrive, 1, 3))
    /\ turns = <<>>
    /\ outbox = {}
    /\ events = 0
    /\ history = [msgs |-> SubSeq(TestDrive, 1, 3), serial |-> TRUE, script |-> 3]

ReceiveOnce ==
    \E m \in inbound :
        /\ \A i \in DOMAIN turns : turns[i].message # m /\ turns[i].pc = "reread"
        /\ Arrive("webhook", Phone, m)

ResumeNext ==
    \/ ReceiveOnce
    \/ GetOrCreateCustomerSelect
    \/ GetOrCreateConversationSelect \/ GetOrCreateConversationContinue
    \/ GetOrCreateConversationInsert
    \/ SaveUserMessage \/ TouchConversation \/ LogAnalytics \/ RereadConversation
    \/ EngineStatement \/ SaveAssistantMessage \/ SendSms \/ EmailNotify

ResumeSpec == ResumeInit /\ [][ResumeNext]_vars

\* C38: no conversation is at stage confirmed with status active
C38_ConfirmedNotActive ==
    \A c \in db.conversations : ~(c.stage = "confirmed" /\ c.status = "active")

\* C39: with the store, the SMS provider and the mail relay available, no
\* webhook turn is aborted, and a webhook turn that is over has stored its
\* user message and sent exactly one reply
C39_EveryTurnAnswered ==
    events = Len(turns) =>
        \A i \in Webhooks :
            /\ turns[i].pc # "failed"
            /\ turns[i].pc = "done" =>
                  /\ \E m \in db.messages :
                        m.turn = turns[i].id /\ m.role = "user" /\ m.content = turns[i].message
                  /\ Cardinality({m \in outbox : m.turn = turns[i].id /\ m.channel = "sms"}) = 1

\* a second customer, who has not written before
OtherPhone == "+15875550142"

\* each of the two customers sends one message: the first the next message of
\* the dialogue (or a retry of the last, or STOP), the second a first message
ReceiveFrom ==
    \/ \E m \in inbound :
          /\ \A i \in DOMAIN turns : turns[i].phone # Phone
          /\ Arrive("webhook", Phone, m)
    \/ /\ \A i \in DOMAIN turns : turns[i].phone # OtherPhone
       /\ Arrive("webhook", OtherPhone, "truck")

TwoPhonesNext ==
    \/ ReceiveFrom
    \/ GetOrCreateCustomerSelect \/ GetOrCreateCustomerInsert
    \/ GetOrCreateConversationSelect \/ GetOrCreateConversationContinue
    \/ GetOrCreateConversationInsert
    \/ SaveUserMessage \/ TouchConversation \/ LogAnalytics \/ RereadConversation
    \/ EngineStatement \/ SaveAssistantMessage \/ SendSms \/ EmailNotify

TwoPhonesSpec == Init /\ [][TwoPhonesNext]_vars

\* the rows of phone p in store, whole
RowsOf(store, p) ==
    [customers |-> {c \in store.customers : c.phone = p},
     conversations |-> {c \in store.conversations : c.customer_phone = p},
     messages |-> {m \in store.messages : m.customer_phone = p},
     appointments |-> {r \in store.appointments : r.customer_phone = p},
     callbacks |-> {r \in store.callbacks : r.customer_phone = p}]

\* the rows of phone p in store without the values of the serial keys
WithoutKeys(store, p) ==
    [customers |-> {c \in store.customers : c.phone = p},
     conversations |-> {[StateOf(c) EXCEPT !.datetime = <<c.datetime, c.updated_at>>] :
                           c \in {d \in store.conversations : d.customer_phone = p}},
     messages |-> {<<m.role, m.content>> : m \in {n \in store.messages : n.customer_phone = p}},
     appointments |-> {[r EXCEPT !.turn = 0] :
                          r \in {x \in store.appointments : x.customer_phone = p}},
     callbacks |-> {[r EXCEPT !.turn = 0] :
                       r \in {x \in store.callbacks : x.customer_phone = p}}]

\* the store the behaviour started from
InitialDb == RunScript(variant, Phone, SubSeq(history.msgs, 1, history.script))

\* the message of the turn of phone p
MessageFrom(p) == turns[CHOOSE i \in DOMAIN turns : turns[i].phone = p].message

\* the store after the turn of phone p and then the turn of phone q, each run
\* alone
InOrder(p, q) ==
    RunTurn(variant,
            RunTurn(variant, InitialDb,
                    Begin(variant, history.script + 1, "webhook", p, MessageFrom(p))),
            Begin(variant, history.script + 2, "webhook", q, MessageFrom(q)))

\* both turns are over
BothOver ==
    /\ InFlight = {}
    /\ \E i \in DOMAIN turns : turns[i].phone = Phone
    /\ \E i \in DOMAIN turns : turns[i].phone = OtherPhone

=============================================================================
